---- MODULE Spec2Model ----
(***************************************************************************)
(* Model of the Quant Cloud environment-variable action (src/src/index.ts). *)
(* Text is a sequence of one-character strings; a JavaScript object is a    *)
(* record [keys, val] holding its own keys in insertion order and the       *)
(* key -> value function.  One action per synchronous segment of run():     *)
(* from its start to the first awaited remote call, and from each remote    *)
(* response to the next awaited call or to the end of run().  A character   *)
(* that a TLA+ string cannot hold (one outside printable ASCII that TLA+    *)
(* has no escape for, and the grave accent) is written as its JavaScript    *)
(* escape, \uXXXX, both as a one-character string of a text and inside the  *)
(* template of a message.                                                   *)
(***************************************************************************)
EXTENDS Integers, Sequences, FiniteSets, TLC

\* ------------------------------------------------------------------------
\* Text helpers (String.prototype.trim / split / join / startsWith ...)
\* ------------------------------------------------------------------------

\* Characters the regular expression atom "." does not match (LineTerminator).
LineTerminators == {"\n", "\r", "\\u2028", "\\u2029"}

\* Characters removed by String.prototype.trim: WhiteSpace (tab, vertical
\* tab, form feed, the byte order mark and the space separators) and
\* LineTerminator.
WhiteSpace ==
    {"\t", "\\u000b", "\f", " ", "\\u00a0", "\\u1680",
     "\\u2000", "\\u2001", "\\u2002", "\\u2003", "\\u2004", "\\u2005",
     "\\u2006", "\\u2007", "\\u2008", "\\u2009", "\\u200a",
     "\\u202f", "\\u205f", "\\u3000", "\\ufeff"}
    \cup LineTerminators

Range(s) == {s[i] : i \in 1..Len(s)}

\* The operators below bind each argument once (t \in {s}) before using it, so
\* that an argument given as an expression is evaluated a single time.

\* s.trim()
Trim(s) ==
    CHOOSE r \in
        { LET idx == {i \in 1..Len(t) : t[i] \notin WhiteSpace}
          IN  IF idx = {} THEN <<>>
              ELSE LET lo == CHOOSE i \in idx : \A j \in idx : i <= j
                       hi == CHOOSE i \in idx : \A j \in idx : j <= i
                   IN  SubSeq(t, lo, hi) : t \in {s} } : TRUE

\* s.split(sep), sep a one-character pattern or a character class
RECURSIVE Split(_, _)
Split(s, seps) ==
    CHOOSE r \in
        { LET idx == {i \in 1..Len(t) : t[i] \in seps}
          IN  IF idx = {} THEN <<t>>
              ELSE LET i == CHOOSE k \in idx : \A j \in idx : k <= j
                   IN  <<SubSeq(t, 1, i - 1)>> \o Split(SubSeq(t, i + 1, Len(t)), seps)
          : t \in {s} } : TRUE

\* parts.join(sep)
RECURSIVE Join(_, _)
Join(parts, sep) ==
    CHOOSE r \in
        { IF Len(ps) = 0 THEN <<>>
          ELSE IF Len(ps) = 1 THEN ps[1]
          ELSE ps[1] \o <<sep>> \o Join(Tail(ps), sep) : ps \in {parts} } : TRUE

StartsWith(s, c) == Len(s) >= 1 /\ s[1] = c
EndsWith(s, c) == Len(s) >= 1 /\ s[Len(s)] = c

\* s.slice(1, -1)
Slice1(s) == IF Len(s) <= 2 THEN <<>> ELSE SubSeq(s, 2, Len(s) - 1)

\* array.filter(pred) for the two predicates the code uses
RECURSIVE FilterNonBlank(_)
FilterNonBlank(parts) ==
    CHOOSE r \in
        { IF ps = <<>> THEN <<>>
          ELSE (IF Trim(Head(ps)) # <<>> THEN <<Head(ps)>> ELSE <<>>)
               \o FilterNonBlank(Tail(ps)) : ps \in {parts} } : TRUE

\* String(n) for a non-negative integer, as text
DigitChar(d) == <<"0", "1", "2", "3", "4", "5", "6", "7", "8", "9">>[d + 1]

RECURSIVE Digits(_)
Digits(n) == IF n < 10 THEN <<DigitChar(n)>>
             ELSE Digits(n \div 10) \o <<DigitChar(n % 10)>>

IsDigit(c) == \E d \in 0..9 : c = DigitChar(d)
DigitOf(c) == CHOOSE d \in 0..9 : DigitChar(d) = c

\* a < b for two numbers written in decimal without leading zeros (compared
\* as texts: the numbers may exceed the integers at hand)
DecimalLess(a, b) ==
    \/ Len(a) < Len(b)
    \/ /\ Len(a) = Len(b)
       /\ \E i \in 1..Len(a) :
              /\ DigitOf(a[i]) < DigitOf(b[i])
              /\ \A j \in 1..(i - 1) : a[j] = b[j]

\* ------------------------------------------------------------------------
\* JavaScript objects with string keys: keys in property order + values
\* ------------------------------------------------------------------------

EmptyObj == [keys |-> <<>>, val |-> <<>>]

Has(o, k) == k \in Range(o.keys)

\* The largest array index, 2^32 - 2
MaxArrayIndex == <<"4", "2", "9", "4", "9", "6", "7", "2", "9", "4">>

\* An array index as property name ("0", "1", "42", up to 2^32 - 2): such
\* keys are enumerated first, in ascending numeric order, whatever the
\* insertion order
IsArrayIndex(k) ==
    /\ Len(k) >= 1
    /\ \A i \in 1..Len(k) : IsDigit(k[i])
    /\ (Len(k) > 1 => k[1] # "0")
    /\ (k = MaxArrayIndex \/ DecimalLess(k, MaxArrayIndex))

\* The own property k of o is created or overwritten (what an object spread
\* and JSON.parse do): an existing key keeps its position; a new array
\* index goes among the array indices in numeric order; any other new key is
\* appended
DefineProperty(o, k, v) ==
    CHOOSE r \in
        { IF Has(obj, key)
          THEN [keys |-> obj.keys,
                val  |-> [i \in 1..Len(obj.keys) |->
                             IF obj.keys[i] = key THEN value ELSE obj.val[i]]]
          ELSE IF IsArrayIndex(key)
          THEN LET p == Cardinality({i \in 1..Len(obj.keys) :
                                        /\ IsArrayIndex(obj.keys[i])
                                        /\ DecimalLess(obj.keys[i], key)})
               IN  [keys |-> SubSeq(obj.keys, 1, p) \o <<key>>
                               \o SubSeq(obj.keys, p + 1, Len(obj.keys)),
                    val  |-> SubSeq(obj.val, 1, p) \o <<value>>
                               \o SubSeq(obj.val, p + 1, Len(obj.val))]
          ELSE [keys |-> Append(obj.keys, key), val |-> Append(obj.val, value)]
          : obj \in {o}, key \in {k}, value \in {v} } : TRUE

\* The property name whose assignment goes to the setter inherited from
\* Object.prototype
ProtoKey == <<"_", "_", "p", "r", "o", "t", "o", "_", "_">>

\* o[k] = v with v a string, o an object made by an object literal: the
\* assignment of "__proto__" to an object without that own property calls
\* the inherited setter, which ignores a string; any other assignment creates
\* or overwrites the own property
Put(o, k, v) ==
    CHOOSE r \in
        { IF key = ProtoKey /\ ~Has(obj, key) THEN obj
          ELSE DefineProperty(obj, key, v) : obj \in {o}, key \in {k} } : TRUE

Get(o, k) == o.val[CHOOSE i \in 1..Len(o.keys) : o.keys[i] = k]

\* delete o[k]
RemoveKey(o, k) ==
    LET keep == {i \in 1..Len(o.keys) : o.keys[i] # k}
        F[n \in 0..Len(o.keys)] ==
            IF n = 0 THEN EmptyObj
            ELSE IF n \in keep THEN [keys |-> Append(F[n-1].keys, o.keys[n]),
                                     val  |-> Append(F[n-1].val, o.val[n])]
                 ELSE F[n-1]
    IN  F[Len(o.keys)]

\* { ...a, ...b }
Spread(a, b) ==
    CHOOSE r \in
        { LET F[n \in 0..Len(src.keys)] ==
                  IF n = 0 THEN a ELSE DefineProperty(F[n-1], src.keys[n], src.val[n])
          IN  F[Len(src.keys)] : src \in {b} } : TRUE

\* The object as a mathematical map (set of <<key, value>> pairs)
AsMap(o) == {<<o.keys[i], o.val[i]>> : i \in 1..Len(o.keys)}

\* ------------------------------------------------------------------------
\* parseEnvFile
\* ------------------------------------------------------------------------

\* trimmed.match(/^([^=]+)=(.*)$/)
EnvLineMatches(trimmed) ==
    /\ \E i \in 2..Len(trimmed) : trimmed[i] = "="
    /\ trimmed[1] # "="
    /\ LET eq == CHOOSE i \in 1..Len(trimmed) :
                    trimmed[i] = "=" /\ \A j \in 1..(i-1) : trimmed[j] # "="
       IN  \A j \in (eq+1)..Len(trimmed) : trimmed[j] \notin LineTerminators

EnvLineKey(trimmed) ==
    LET eq == CHOOSE i \in 1..Len(trimmed) :
                 trimmed[i] = "=" /\ \A j \in 1..(i-1) : trimmed[j] # "="
    IN  Trim(SubSeq(trimmed, 1, eq - 1))

\* EnvLineValue dropping the first and last character of every value
EnvLineValueAlwaysSlices(trimmed) ==
    LET eq == CHOOSE i \in 1..Len(trimmed) :
                 trimmed[i] = "=" /\ \A j \in 1..(i-1) : trimmed[j] # "="
        value == Trim(SubSeq(trimmed, eq + 1, Len(trimmed)))
    IN  Slice1(value)

\* match[2].trim(), without the quotes when it is wrapped in a pair of them
EnvLineValue(trimmed) ==
    LET eq == CHOOSE i \in 1..Len(trimmed) :
                 trimmed[i] = "=" /\ \A j \in 1..(i-1) : trimmed[j] # "="
        value == Trim(SubSeq(trimmed, eq + 1, Len(trimmed)))
    IN  IF \/ (StartsWith(value, "\"") /\ EndsWith(value, "\""))
           \/ (StartsWith(value, "'") /\ EndsWith(value, "'"))
        THEN Slice1(value)
        ELSE value

parseEnvFile(content) ==
    CHOOSE r \in
        { LET F[n \in 0..Len(lines)] ==
                  IF n = 0 THEN EmptyObj
                  ELSE LET trimmed == Trim(lines[n])
                       IN  IF trimmed = <<>> \/ StartsWith(trimmed, "#") THEN F[n-1]
                           ELSE IF EnvLineMatches(trimmed)
                                THEN Put(F[n-1], EnvLineKey(trimmed), EnvLineValue(trimmed))
                                ELSE F[n-1]
          IN  F[Len(lines)] : lines \in {Split(content, {"\n"})} } : TRUE

\* ------------------------------------------------------------------------
\* parseVariables: the inline KEY=VALUE source
\* ------------------------------------------------------------------------

\* The inline source of parseVariables: result after the pairs of `variables`
parseInline(result, variables) ==
    CHOOSE r \in
        { LET F[n \in 0..Len(pairs)] ==
                  IF n = 0 THEN result
                  ELSE LET parts == Split(pairs[n], {"="})
                           key == Head(parts)
                           valueParts == Tail(parts)
                       IN  IF key # <<>> /\ Len(valueParts) > 0
                           THEN Put(F[n-1], Trim(key), Trim(Join(valueParts, "=")))
                           ELSE F[n-1]
          IN  F[Len(pairs)] : pairs \in {FilterNonBlank(Split(variables, {"\n", ","}))} } : TRUE

\* keysInput.split(/[\n,]/).map(k => k.trim()).filter(k => k)
RECURSIVE TrimAndDropEmpty(_)
TrimAndDropEmpty(parts) ==
    CHOOSE r \in
        { IF ps = <<>> THEN <<>>
          ELSE (IF Trim(Head(ps)) # <<>> THEN <<Trim(Head(ps))>> ELSE <<>>)
               \o TrimAndDropEmpty(Tail(ps)) : ps \in {parts} } : TRUE

parseKeys(keysInput) == TrimAndDropEmpty(Split(keysInput, {"\n", ","}))

\* ------------------------------------------------------------------------
\* Messages and errors
\* ------------------------------------------------------------------------

\* A message: the template of the code's string literal, with {} for each
\* interpolated text, and the interpolated texts in order.
Msg(template, args) == [msg |-> template, args |-> args]

\* `${prefix...}${m}` : message m appended to a template of the code
Interpolate(template, args, m) == Msg(template \o m.msg, args \o m.args)

\* An Error object as run() inspects it: statusCode (0 when undefined),
\* body.message (<<>> when undefined) and message.
Err(statusCode, body, message) ==
    [statusCode |-> statusCode, body |-> body, message |-> message]

\* new Error(message)
NewError(message) == Err(0, <<>>, message)

\* apiError.body?.message || (error as Error).message
ErrorText(e) == IF e.body # <<>> THEN Msg("{}", <<e.body>>) ELSE e.message

\* apiError.body?.message || (error as Error).message || 'Unknown error'
FailText(e) ==
    IF e.body # <<>> THEN Msg("{}", <<e.body>>)
    ELSE IF e.message # Msg("{}", <<<<>>>>) THEN e.message
    ELSE Msg("Unknown error", <<>>)

LogEntry(level, template, args) == [level |-> level, text |-> Msg(template, args)]

\* ------------------------------------------------------------------------
\* The value of a number literal: the nearest double, written back as
\* Number.prototype.toString writes it (the shortest digits that read back as
\* the same double)
\* ------------------------------------------------------------------------


\* A natural number of any size: its digits in base Base, lowest first,
\* without a zero at the top; zero is the empty sequence
Base == 10000

BigNorm(a) ==
    CHOOSE r1 \in
      { IF \A i \in 1..Len(x) : x[i] = 0 THEN <<>>
        ELSE SubSeq(x, 1, CHOOSE i \in 1..Len(x) :
                              x[i] # 0 /\ \A j \in (i + 1)..Len(x) : x[j] = 0)
        : x \in {a} } : TRUE

\* -1, 0 or 1 as a is less than, equal to or greater than b
BigCmp(a, b) ==
    CHOOSE r1 \in
      { IF Len(p[1]) # Len(p[2]) THEN (IF Len(p[1]) < Len(p[2]) THEN -1 ELSE 1)
        ELSE IF p[1] = p[2] THEN 0
        ELSE LET i == CHOOSE i \in 1..Len(p[1]) :
                          /\ p[1][i] # p[2][i]
                          /\ \A j \in (i + 1)..Len(p[1]) : p[1][j] = p[2][j]
             IN  IF p[1][i] < p[2][i] THEN -1 ELSE 1
        : p \in {<<a, b>>} } : TRUE

\* a + b, digit by digit: a carry comes into digit i from the nearest digit
\* below whose sum is not Base - 1, when that sum is Base or more
BigAdd(a, b) ==
    CHOOSE r1 \in
      { CHOOSE r2 \in
          { LET cin(i) == \E j \in 1..(i - 1) :
                              sum[j] >= Base /\ \A l \in (j + 1)..(i - 1) : sum[l] = Base - 1
            IN  BigNorm([i \in 1..(Len(sum) + 1) |->
                            ((IF i <= Len(sum) THEN sum[i] ELSE 0)
                             + (IF cin(i) THEN 1 ELSE 0)) % Base])
            : sum \in {[i \in 1..(IF Len(p[1]) > Len(p[2]) THEN Len(p[1]) ELSE Len(p[2])) |->
                           (IF i <= Len(p[1]) THEN p[1][i] ELSE 0)
                           + (IF i <= Len(p[2]) THEN p[2][i] ELSE 0)]} } : TRUE
        : p \in {<<a, b>>} } : TRUE

\* a * k for k below Base: the low halves of the products of the digits, plus
\* the high halves one digit up
BigMulSmall(a, k) ==
    CHOOSE r1 \in
      { BigAdd([i \in 1..Len(p[1]) |-> (p[1][i] * p[2]) % Base],
               <<0>> \o [i \in 1..Len(p[1]) |-> (p[1][i] * p[2]) \div Base])
        : p \in {<<a, k>>} } : TRUE

\* a - b for a >= b: digit i borrows when the nearest digit below where a and
\* b differ has less in a
BigSub(a, b) ==
    CHOOSE r1 \in
      { LET sub(i) == IF i <= Len(p[2]) THEN p[2][i] ELSE 0
            bin(i) == \E j \in 1..(i - 1) :
                          p[1][j] < sub(j) /\ \A l \in (j + 1)..(i - 1) : p[1][l] = sub(l)
        IN  BigNorm([i \in 1..Len(p[1]) |->
                        (p[1][i] - sub(i) - (IF bin(i) THEN 1 ELSE 0) + Base) % Base])
        : p \in {<<a, b>>} } : TRUE

\* a * 10^e
BigMulPow10(a, e) ==
    CHOOSE r1 \in
      { IF p[1] = <<>> THEN <<>>
        ELSE BigMulSmall([i \in 1..(p[2] \div 4) |-> 0] \o p[1], 10 ^ (p[2] % 4))
        : p \in {<<a, e>>} } : TRUE

\* a * b: the sum of the rows a * b[j] * Base^(j - 1), summed by halves
BigMul(a, b) ==
    CHOOSE r1 \in
      { LET RECURSIVE Rows(_)
            Rows(st0) ==
                CHOOSE r2 \in
                  { IF st.lo = st.hi
                    THEN BigNorm([i \in 1..(st.lo - 1) |-> 0]
                                 \o BigMulSmall(p[1], p[2][st.lo]))
                    ELSE CHOOSE r3 \in
                           { BigAdd(Rows([st EXCEPT !.hi = mid]),
                                    Rows([st EXCEPT !.lo = mid + 1]))
                             : mid \in {(st.lo + st.hi) \div 2} } : TRUE
                    : st \in {st0} } : TRUE
        IN  IF p[1] = <<>> \/ p[2] = <<>> THEN <<>>
            ELSE Rows([lo |-> 1, hi |-> Len(p[2])])
        : p \in {<<a, b>>} } : TRUE

\* 2^e, by squaring 2^(e / 2)
RECURSIVE BigPow2(_)
BigPow2(e) ==
    CHOOSE r1 \in
      { IF n < 13 THEN <<2 ^ n>>
        ELSE CHOOSE r2 \in
               { BigMul(h, IF n % 2 = 0 THEN h ELSE BigMulSmall(h, 2))
                 : h \in {BigPow2(n \div 2)} } : TRUE
        : n \in {e} } : TRUE

\* Quotient and remainder of N by M, M not zero, by long division from digit
\* Len(N) - Len(M) + 1 of N down (the digits above are fewer than those of M
\* and give no quotient).  Digit(st) is the digit d of the quotient with
\* d * M <= st.rem < (d + 1) * M, looked for from st.lo up to st.hi - 1;
\* From(st) divides on from digit st.i, st.rem being what the digits above
\* leave.
BigDivMod(N, M) ==
    CHOOSE r1 \in
      { LET RECURSIVE Digit(_)
            Digit(st0) ==
                CHOOSE r2 \in
                  { IF st.hi - st.lo = 1 THEN st.lo
                    ELSE CHOOSE r3 \in
                           { IF BigCmp(BigMulSmall(p[2], mid), st.rem) <= 0
                             THEN Digit([st EXCEPT !.lo = mid])
                             ELSE Digit([st EXCEPT !.hi = mid])
                             : mid \in {(st.lo + st.hi) \div 2} } : TRUE
                    : st \in {st0} } : TRUE
            RECURSIVE From(_)
            From(st0) ==
                CHOOSE r4 \in
                  { IF st.i = 0 THEN [quot |-> BigNorm(st.quot), rem |-> st.rem]
                    ELSE CHOOSE r5 \in
                           { CHOOSE r6 \in
                               { From([i |-> st.i - 1,
                                       rem |-> BigSub(r, BigMulSmall(p[2], d)),
                                       quot |-> <<d>> \o st.quot])
                                 : d \in {Digit([rem |-> r, lo |-> 0, hi |-> Base])} } : TRUE
                             : r \in {BigNorm(<<p[1][st.i]>> \o st.rem)} } : TRUE
                    : st \in {st0} } : TRUE
            top == IF Len(p[1]) < Len(p[2]) THEN 0 ELSE Len(p[1]) - Len(p[2]) + 1
        IN  From([i |-> top, rem |-> SubSeq(p[1], top + 1, Len(p[1])), quot |-> <<>>])
        : p \in {<<N, M>>} } : TRUE

\* The number of decimal digits of a
DecLen(a) ==
    CHOOSE r1 \in
      { IF x = <<>> THEN 0
        ELSE 4 * (Len(x) - 1)
             + (IF x[Len(x)] >= 1000 THEN 4 ELSE IF x[Len(x)] >= 100 THEN 3
                ELSE IF x[Len(x)] >= 10 THEN 2 ELSE 1)
        : x \in {a} } : TRUE

\* The double's format: a mantissa below 2^MantissaBits, binary exponents
\* MinExp..MaxExp
MantissaBits == 53
MinExp == -1074
MaxExp == 971
\* 2^53
TwoTo53 == <<992, 5474, 1992, 9007>>

\* N / M as a fraction over 2^q with a value between 2^52 and 2^53, or below
\* 2^52 with q the least exponent: N and M scaled so that st.N / st.M is
\* N / (M * 2^st.q).  The search starts at an exponent that gives 2^52 or
\* more, found from the numbers of decimal digits of N and M
\* (Low(x) <= log2(x) < High(x)), and raises it until the value is below 2^53.
BinaryFraction(N, M) ==
    CHOOSE r1 \in
      { LET Low(x) == ((DecLen(x) - 1) * 33219) \div 10000
            High(x) == (DecLen(x) * 33220) \div 10000 + 1
            RECURSIVE Scale(_)
            Scale(st0) ==
                CHOOSE r2 \in
                  { IF BigCmp(st.N, BigMul(st.M, TwoTo53)) >= 0
                    THEN Scale([st EXCEPT !.M = BigMulSmall(st.M, 2), !.q = st.q + 1])
                    ELSE st
                    : st \in {st0} } : TRUE
        IN  CHOOSE r3 \in
              { CHOOSE r4 \in
                  { Scale([N |-> IF q < 0 THEN BigMul(p[1], BigPow2(0 - q)) ELSE p[1],
                           M |-> IF q > 0 THEN BigMul(p[2], BigPow2(q)) ELSE p[2],
                           q |-> q])
                    : q \in {IF est < MinExp THEN MinExp ELSE est} } : TRUE
                : est \in {Low(p[1]) - High(p[2]) - (MantissaBits - 1)} } : TRUE
        : p \in {<<N, M>>} } : TRUE

\* The double nearest to D * 10^e10, as mantissa m and exponent q, m * 2^q:
\* the quotient of the binary fraction rounded to the nearest whole number, a
\* half to the even one; a mantissa rounded up to 2^53 is 2^52 with the next
\* exponent
NearestDouble(D, e10) ==
    CHOOSE r1 \in
      { CHOOSE r2 \in
          { LET c == BigCmp(BigMulSmall(dm.rem, 2), s.M)
                up == c > 0 \/ (c = 0 /\ dm.quot # <<>> /\ dm.quot[1] % 2 = 1)
                m == IF up THEN BigAdd(dm.quot, <<1>>) ELSE dm.quot
            IN  IF m = TwoTo53 THEN [m |-> BigDivMod(m, <<2>>).quot, q |-> s.q + 1]
                ELSE [m |-> m, q |-> s.q]
            : dm \in {BigDivMod(s.N, s.M)} } : TRUE
        : s \in {BinaryFraction(IF e10 >= 0 THEN BigMulPow10(D, e10) ELSE D,
                                IF e10 >= 0 THEN <<1>> ELSE BigMulPow10(<<1>>, 0 - e10))} } : TRUE

\* Decimal digits kept when looking for the shortest (17 always tell two
\* doubles apart), and the width of the texts of digits compared
MaxDigits == 17
DecWidth == 20

\* The shortest digits s and the exponent n with s * 10^(n - Len(s)) nearer
\* to the double m * 2^q than to any other double.
\* b: the double as V / den, with the halfway points L / den and H / den to
\* the doubles below and above (the double below a power of two is half as
\* far); a number between them reads back as this double, the halfway points
\* themselves only when m is even.
\* n: 10^(n - 1) <= V / den < 10^n.
\* f: the whole parts of V, L and H over den in units of 10^(n - MaxDigits),
\* as texts of digits, and whether each is whole.
\* The result is the first len digits of v (Below) or one more in the last of
\* them (Above), for the least len that gives a number between the halfway
\* points; when both do, the nearer to the double, the even one when equally
\* near.
ShortestDigits(m, q) ==
    CHOOSE r1 \in
      { CHOOSE r2 \in
          { CHOOSE r3 \in
              { CHOOSE r4 \in
                  { CHOOSE r5 \in
                      { LET top == DecWidth - MaxDigits
                            Less(x, y) == \E i \in 1..DecWidth : x[i] < y[i] /\ \A j \in 1..(i - 1) : x[j] = y[j]
                            v == f.v.digits
                            Below(w) == [i \in 1..DecWidth |-> IF i <= top + w THEN v[i] ELSE 0]
                            Above(w) ==
                                LET last == CHOOSE j \in 1..(top + w) :
                                                v[j] # 9 /\ \A k \in (j + 1)..(top + w) : v[k] = 9
                                IN  [i \in 1..DecWidth |->
                                        IF i < last THEN v[i] ELSE IF i = last THEN v[i] + 1 ELSE 0]
                            BelowOk(w) == \/ Less(f.l.digits, Below(w))
                                          \/ b.even /\ Below(w) = f.l.digits /\ f.l.whole
                            AboveOk(w) == IF b.even THEN ~Less(f.h.digits, Above(w))
                                          ELSE \/ Less(Above(w), f.h.digits)
                                               \/ Above(w) = f.h.digits /\ ~f.h.whole
                            len == CHOOSE w \in 1..MaxDigits :
                                       /\ BelowOk(w) \/ AboveOk(w)
                                       /\ \A j \in 1..(w - 1) : ~BelowOk(j) /\ ~AboveOk(j)
                            rest == [i \in 1..(MaxDigits - len) |-> v[top + len + i]]
                            half == IF len = MaxDigits THEN BigCmp(BigMulSmall(f.v.rem, 2), div)
                                    ELSE IF rest[1] # 5 THEN (IF rest[1] < 5 THEN -1 ELSE 1)
                                    ELSE IF f.v.whole /\ \A i \in 2..(MaxDigits - len) : rest[i] = 0
                                    THEN 0 ELSE 1
                            below == IF BelowOk(len) /\ AboveOk(len)
                                     THEN half < 0 \/ (half = 0 /\ v[top + len] % 2 = 0)
                                     ELSE BelowOk(len)
                            c == IF below THEN Below(len) ELSE Above(len)
                        IN  IF c[top] = 1 THEN [digits |-> <<1>>, n |-> n + 1]
                            ELSE [digits |-> [i \in 1..len |-> c[top + i]], n |-> n]
                        : f \in {LET Dec(x) == [i \in 1..DecWidth |->
                                                   LET j == DecWidth - i
                                                   IN  IF j \div 4 + 1 > Len(x) THEN 0
                                                       ELSE (x[j \div 4 + 1] \div (10 ^ (j % 4))) % 10]
                                     Whole(x) ==
                                         CHOOSE r6 \in
                                           { [digits |-> Dec(r.quot), whole |-> r.rem = <<>>, rem |-> r.rem]
                                             : r \in {BigDivMod(IF n >= MaxDigits THEN x
                                                                ELSE BigMulPow10(x, MaxDigits - n), div)} } : TRUE
                                 IN  [v |-> Whole(b.V), l |-> Whole(b.L), h |-> Whole(b.H)]} } : TRUE
                    : div \in {IF n >= MaxDigits THEN BigMulPow10(b.den, n - MaxDigits) ELSE b.den} } : TRUE
                : n \in {LET g == DecLen(b.V) - DecLen(b.den)
                         IN  IF (IF g >= 0 THEN BigCmp(b.V, BigMulPow10(b.den, g))
                                 ELSE BigCmp(BigMulPow10(b.V, 0 - g), b.den)) >= 0
                             THEN g + 1 ELSE g} } : TRUE
            : b \in {LET low == BigSub(p[1], IF BigMulSmall(m, 2) = TwoTo53 /\ q > MinExp
                                             THEN <<1>> ELSE <<2>>)
                         high == BigAdd(p[1], <<2>>)
                     IN  [V |-> IF q >= 2 THEN BigMul(p[1], p[2]) ELSE p[1],
                          L |-> IF q >= 2 THEN BigMul(low, p[2]) ELSE low,
                          H |-> IF q >= 2 THEN BigMul(high, p[2]) ELSE high,
                          den |-> IF q >= 2 THEN <<1>> ELSE p[2],
                          even |-> m[1] % 2 = 0]} } : TRUE
        : p \in {<<BigMulSmall(m, 4), BigPow2(IF q >= 2 THEN q - 2 ELSE 2 - q)>>} } : TRUE

\* Number::toString of a finite double that is not zero, given its shortest
\* digits and exponent
NumberToString(sd0) ==
    CHOOSE r1 \in
      { LET k == Len(sd.digits)
            n == sd.n
            text == [i \in 1..k |-> DigitChar(sd.digits[i])]
            zeros(z) == [i \in 1..z |-> "0"]
            e == n - 1
        IN  IF k <= n /\ n <= 21 THEN text \o zeros(n - k)
            ELSE IF 0 < n /\ n <= 21
            THEN SubSeq(text, 1, n) \o <<".">> \o SubSeq(text, n + 1, k)
            ELSE IF -6 < n /\ n <= 0 THEN <<"0", ".">> \o zeros(0 - n) \o text
            ELSE (IF k = 1 THEN text ELSE <<text[1], ".">> \o SubSeq(text, 2, k))
                 \o <<"e", IF e < 0 THEN "-" ELSE "+">>
                 \o Digits(IF e < 0 THEN 0 - e ELSE e)
        : sd \in {sd0} } : TRUE

\* The parts of a number literal: sign, digits of the whole part, of the
\* fraction and of the exponent.  at: the position of the dot (of the
\* exponent, when there is no dot) and of the exponent (the end, when there is
\* none).
NumberParts(raw) ==
    CHOOSE r1 \in
      { CHOOSE r2 \in
          { CHOOSE r3 \in
              { CHOOSE r4 \in
                  { [neg |-> r[1] = "-",
                     whole |-> SubSeq(s, 1, at[1] - 1),
                     frac |-> SubSeq(s, at[1] + 1, at[2] - 1),
                     expNeg |-> ex # <<>> /\ ex[1] = "-",
                     exp |-> IF ex # <<>> /\ ex[1] \in {"+", "-"} THEN Tail(ex) ELSE ex]
                    : ex \in {SubSeq(s, at[2] + 1, Len(s))} } : TRUE
                : at \in {LET FirstOf(chars) ==
                                  IF \E i \in 1..Len(s) : s[i] \in chars
                                  THEN CHOOSE i \in 1..Len(s) :
                                           s[i] \in chars /\ \A j \in 1..(i - 1) : s[j] \notin chars
                                  ELSE Len(s) + 1
                          IN  <<FirstOf({".", "e", "E"}), FirstOf({"e", "E"})>>} } : TRUE
            : s \in {IF r[1] = "-" THEN Tail(r) ELSE r} } : TRUE
        : r \in {raw} } : TRUE

\* Exponents written with more digits than this are beyond every double
MaxExponentDigits == 7

\* The greatest and least decimal exponents of a double: a number of
\* 10^(MaxDecimalExponent + 1) or more is Infinity, one below
\* 10^MinDecimalExponent is zero
MaxDecimalExponent == 308
MinDecimalExponent == -324

\* A whole number of up to SafeDigits digits is below 2^53 and so a double,
\* which no fewer digits than its own denote
SafeDigits == 15

\* The text JSON.stringify writes for the number a literal denotes: the
\* double nearest to the literal, written with the shortest digits; Infinity
\* is written null, zero 0 whatever its sign.
\* t: the literal as sig * 10^e10, sig without zeros at either end; huge when
\* the exponent is too long to be counted.
CanonicalNumber(raw) ==
    CHOOSE r1 \in
      { CHOOSE r2 \in
          { LET null == <<"n", "u", "l", "l">>
                sign == IF p.neg THEN <<"-">> ELSE <<>>
                BigOfDigits(s) ==
                    LET digit(j) == IF j < Len(s) THEN DigitOf(s[Len(s) - j]) ELSE 0
                    IN  BigNorm([i \in 1..((Len(s) + 3) \div 4) |->
                                    digit(4 * i - 4) + 10 * digit(4 * i - 3)
                                    + 100 * digit(4 * i - 2) + 1000 * digit(4 * i - 1)])
            IN  IF t.sig = <<>> THEN <<"0">>
                ELSE IF t.huge THEN (IF p.expNeg THEN <<"0">> ELSE null)
                ELSE IF t.e10 >= 0 /\ Len(t.sig) + t.e10 <= SafeDigits
                THEN sign \o t.sig \o [i \in 1..t.e10 |-> "0"]
                ELSE IF Len(t.sig) + t.e10 > MaxDecimalExponent + 1 THEN null
                ELSE IF Len(t.sig) + t.e10 <= MinDecimalExponent THEN <<"0">>
                ELSE CHOOSE r3 \in
                       { IF x.m = <<>> THEN <<"0">>
                         ELSE IF x.q > MaxExp THEN null
                         ELSE sign \o NumberToString(ShortestDigits(x.m, x.q))
                         : x \in {NearestDouble(BigOfDigits(t.sig), t.e10)} } : TRUE
            : t \in {LET NoZerosInFront(s) ==
                             IF \A i \in 1..Len(s) : s[i] = "0" THEN <<>>
                             ELSE SubSeq(s, CHOOSE i \in 1..Len(s) :
                                                s[i] # "0" /\ \A j \in 1..(i - 1) : s[j] = "0", Len(s))
                         NoZerosAtEnd(s) ==
                             IF \A i \in 1..Len(s) : s[i] = "0" THEN <<>>
                             ELSE SubSeq(s, 1, CHOOSE i \in 1..Len(s) :
                                                   s[i] # "0" /\ \A j \in (i + 1)..Len(s) : s[j] = "0")
                         digits == p.whole \o p.frac
                         exp == NoZerosInFront(p.exp)
                         huge == Len(exp) > MaxExponentDigits
                         Value[i \in 0..Len(exp)] == IF i = 0 THEN 0 ELSE Value[i - 1] * 10 + DigitOf(exp[i])
                     IN  [huge |-> huge,
                          sig |-> NoZerosAtEnd(NoZerosInFront(digits)),
                          e10 |-> IF huge THEN 0
                                  ELSE (IF p.expNeg THEN 0 - Value[Len(exp)] ELSE Value[Len(exp)])
                                       - Len(p.frac) + Len(digits) - Len(NoZerosAtEnd(digits))]} } : TRUE
        : p \in {NumberParts(raw)} } : TRUE

\* ------------------------------------------------------------------------
\* JSON.parse (V8's JsonParser: grammar, property order, error messages)
\* ------------------------------------------------------------------------

\* The kinds of value a property holds that are not strings: such a value is
\* the kind's tag followed by the value's JSON text
TypeTags == {"<number>", "<boolean>", "<null>", "<object>", "<array>"}
NumberValue(digits) == <<"<number>">> \o digits
IsStringValue(v) == v = <<>> \/ v[1] \notin TypeTags

\* White space between JSON tokens
JsonWhiteSpace == {" ", "\t", "\n", "\r"}

HexDigits == <<"0", "1", "2", "3", "4", "5", "6", "7", "8", "9",
               "a", "b", "c", "d", "e", "f">>
HexUpper == <<"0", "1", "2", "3", "4", "5", "6", "7", "8", "9",
              "A", "B", "C", "D", "E", "F">>
IsHex(c) == \E i \in 1..16 : c = HexDigits[i] \/ c = HexUpper[i]
HexOf(c) == (CHOOSE i \in 1..16 : c = HexDigits[i] \/ c = HexUpper[i]) - 1

\* The printable ASCII characters, U+0020 to U+007E (the grave accent, which
\* a TLA+ string cannot hold, as \u0060)
Ascii ==
    <<" ", "!", "\"", "#", "$", "%", "&", "'", "(", ")", "*", "+", ",", "-", ".", "/",
      "0", "1", "2", "3", "4", "5", "6", "7", "8", "9", ":", ";", "<", "=", ">", "?",
      "@", "A", "B", "C", "D", "E", "F", "G", "H", "I", "J", "K", "L", "M", "N", "O",
      "P", "Q", "R", "S", "T", "U", "V", "W", "X", "Y", "Z", "[", "\\", "]", "^", "_",
      "\\u0060", "a", "b", "c", "d", "e", "f", "g", "h", "i", "j", "k", "l", "m", "n", "o",
      "p", "q", "r", "s", "t", "u", "v", "w", "x", "y", "z", "{", "|", "}", "~">>

\* The character \uXXXX denotes, given the values of its four hex digits
CharOfCode(h) ==
    LET code == ((h[1] * 16 + h[2]) * 16 + h[3]) * 16 + h[4]
    IN  IF code \in 32..126 THEN Ascii[code - 31]
        ELSE IF code = 9 THEN "\t"
        ELSE IF code = 10 THEN "\n"
        ELSE IF code = 12 THEN "\f"
        ELSE IF code = 13 THEN "\r"
        ELSE "\\u" \o HexDigits[h[1] + 1] \o HexDigits[h[2] + 1]
                   \o HexDigits[h[3] + 1] \o HexDigits[h[4] + 1]

\* Characters below U+0020
ControlChars ==
    {"\t", "\n", "\f", "\r"}
    \cup {"\\u00" \o a \o b : a \in {"0", "1"}, b \in Range(HexDigits)}

\* The character at position p of the text (positions from 1), or the end
EOS == "<EOS>"
At(t, p) == IF p <= Len(t) THEN t[p] ELSE EOS

\* The token a character starts (one_char_json_tokens)
TokenOf(c) ==
    IF c = EOS THEN "EOS"
    ELSE IF c \in JsonWhiteSpace THEN "WHITESPACE"
    ELSE IF c = "\"" THEN "STRING"
    ELSE IF c = "-" \/ IsDigit(c) THEN "NUMBER"
    ELSE IF c = "[" THEN "LBRACK"
    ELSE IF c = "]" THEN "RBRACK"
    ELSE IF c = "{" THEN "LBRACE"
    ELSE IF c = "}" THEN "RBRACE"
    ELSE IF c = ":" THEN "COLON"
    ELSE IF c = "," THEN "COMMA"
    ELSE IF c = "t" THEN "TRUE_LITERAL"
    ELSE IF c = "f" THEN "FALSE_LITERAL"
    ELSE IF c = "n" THEN "NULL_LITERAL"
    ELSE "ILLEGAL"

\* SkipWhitespace: the first position from p on that holds no white space
SkipWhitespace(t, p) ==
    CHOOSE q \in p..(Len(t) + 1) :
        /\ At(t, q) \notin JsonWhiteSpace
        /\ \A j \in p..(q - 1) : t[j] \in JsonWhiteSpace

\* The first position from p on that holds no decimal digit
SkipDigits(t, p) ==
    CHOOSE q \in p..(Len(t) + 1) :
        /\ ~IsDigit(At(t, q))
        /\ \A j \in p..(q - 1) : IsDigit(t[j])

\* A parsed value: its kind, the value as a property holds it (a text for a
\* string, else tag and JSON text) and its own enumerable properties
JsonValue(kind, held, props) == [kind |-> kind, held |-> held, props |-> props]

Parsed(p, value) == [ok |-> TRUE, pos |-> p, value |-> value]

\* The SyntaxError with one of the parser's own messages, which ends with
\* the position, counted from 0
SyntaxErrorAt(message, p) ==
    [ok |-> FALSE,
     error |-> NewError(Msg(message \o " at position {}", <<Digits(p - 1)>>))]

\* Source texts reported whole (IsSpecialString)
SpecialStrings ==
    { <<"N", "a", "N">>,
      <<"I", "n", "f", "i", "n", "i", "t", "y">>,
      <<"u", "n", "d", "e", "f", "i", "n", "e", "d">>,
      <<"[", "o", "b", "j", "e", "c", "t", " ", "O", "b", "j", "e", "c", "t", "]">> }

\* Characters of context quoted on each side of an unexpected token
MaxContextCharacters == 10

\* ReportUnexpectedToken without a message of its own: the message is chosen
\* by the token at position p (LookUpErrorMessageForJsonToken)
UnexpectedToken(t, p) ==
    LET token == TokenOf(At(t, p))
        pos == p - 1
        n == Len(t)
        m == MaxContextCharacters
    IN  [ok |-> FALSE,
         error |-> NewError(
            IF token = "EOS" THEN Msg("Unexpected end of JSON input", <<>>)
            ELSE IF token = "NUMBER"
            THEN Msg("Unexpected number in JSON at position {}", <<Digits(pos)>>)
            ELSE IF token = "STRING"
            THEN Msg("Unexpected string in JSON at position {}", <<Digits(pos)>>)
            ELSE IF t \in SpecialStrings
            THEN Msg("\"{}\" is not valid JSON", <<t>>)
            ELSE IF n < 2 * m + 1
            THEN Msg("Unexpected token '{}', \"{}\" is not valid JSON", <<<<t[p]>>, t>>)
            ELSE IF pos < m
            THEN Msg("Unexpected token '{}', \"{}\"... is not valid JSON",
                     <<<<t[p]>>, SubSeq(t, 1, pos + m)>>)
            ELSE IF pos < n - m
            THEN Msg("Unexpected token '{}', ...\"{}\"... is not valid JSON",
                     <<<<t[p]>>, SubSeq(t, pos - m + 1, pos + m)>>)
            ELSE Msg("Unexpected token '{}', ...\"{}\" is not valid JSON",
                     <<<<t[p]>>, SubSeq(t, pos - m + 1, n)>>))]

\* ScanJsonString from position p, just after the opening quote, with the
\* characters acc read so far: the text and the position after the closing
\* quote.  After a backslash, the end of the text or a character above U+00FF
\* (Latin1 holds the characters up to it) is reported as an unexpected token,
\* any other character that starts no escape as a bad escaped character.
RECURSIVE ScanJsonString(_, _, _)
ScanJsonString(t, p, acc) ==
    CHOOSE r \in
        { LET c == At(t, q)
              e == At(t, q + 1)
              bad == {j \in (q + 2)..(q + 5) : ~IsHex(At(t, j))}
              Latin1 ==
                  Range(Ascii) \cup {"\t", "\n", "\f", "\r"}
                  \cup {"\\u00" \o x \o y : x \in Range(HexDigits), y \in Range(HexDigits)}
          IN  IF c = EOS THEN SyntaxErrorAt("Unterminated string in JSON", q)
              ELSE IF c = "\"" THEN Parsed(q + 1, a)
              ELSE IF c \in ControlChars
              THEN SyntaxErrorAt("Bad control character in string literal in JSON", q)
              ELSE IF c # "\\" THEN ScanJsonString(t, q + 1, Append(a, c))
              ELSE IF e \notin Latin1 THEN UnexpectedToken(t, q + 1)
              ELSE IF e \in {"\"", "\\", "/"} THEN ScanJsonString(t, q + 2, Append(a, e))
              ELSE IF e = "b" THEN ScanJsonString(t, q + 2, Append(a, "\\u0008"))
              ELSE IF e = "f" THEN ScanJsonString(t, q + 2, Append(a, "\f"))
              ELSE IF e = "n" THEN ScanJsonString(t, q + 2, Append(a, "\n"))
              ELSE IF e = "r" THEN ScanJsonString(t, q + 2, Append(a, "\r"))
              ELSE IF e = "t" THEN ScanJsonString(t, q + 2, Append(a, "\t"))
              ELSE IF e # "u" THEN SyntaxErrorAt("Bad escaped character in JSON", q + 1)
              ELSE IF bad # {}
              THEN SyntaxErrorAt("Bad Unicode escape in JSON",
                                 CHOOSE j \in bad : \A k \in bad : j <= k)
              ELSE ScanJsonString(t, q + 6,
                       Append(a, CharOfCode([i \in 1..4 |-> HexOf(t[q + 1 + i])])))
          : q \in {p}, a \in {acc} } : TRUE

\* ParseJsonNumber at position p, which holds "-" or a digit
ParseJsonNumber(t, p) ==
    LET first == IF t[p] = "-" THEN p + 1 ELSE p
        intEnd == IF At(t, first) = "0" THEN first + 1 ELSE SkipDigits(t, first)
        fracEnd == IF At(t, intEnd) = "." THEN SkipDigits(t, intEnd + 1) ELSE intEnd
        expFirst == IF At(t, fracEnd + 1) \in {"+", "-"} THEN fracEnd + 2 ELSE fracEnd + 1
        numEnd == IF At(t, fracEnd) \in {"e", "E"} THEN SkipDigits(t, expFirst) ELSE fracEnd
    IN  IF ~IsDigit(At(t, first)) THEN SyntaxErrorAt("No number after minus sign in JSON", first)
        ELSE IF At(t, first) = "0" /\ IsDigit(At(t, first + 1))
        THEN UnexpectedToken(t, first + 1)
        ELSE IF At(t, intEnd) = "." /\ ~IsDigit(At(t, intEnd + 1))
        THEN SyntaxErrorAt("Unterminated fractional number in JSON", intEnd + 1)
        ELSE IF At(t, fracEnd) \in {"e", "E"} /\ ~IsDigit(At(t, expFirst))
        THEN SyntaxErrorAt("Exponent part is missing a number in JSON", expFirst)
        ELSE Parsed(numEnd,
                    JsonValue("number",
                              NumberValue(CanonicalNumber(SubSeq(t, p, numEnd - 1))),
                              EmptyObj))

\* ScanLiteral at position p, which holds the first character of word
ScanLiteral(t, p, word, kind, tag) ==
    LET n == Len(word)
        differs == {j \in 2..n : p + j - 1 <= Len(t) /\ t[p + j - 1] # word[j]}
    IN  IF p + n - 1 <= Len(t) /\ SubSeq(t, p, p + n - 1) = word
        THEN Parsed(p + n, JsonValue(kind, <<tag>> \o word, EmptyObj))
        ELSE IF differs = {} THEN UnexpectedToken(t, Len(t) + 1)
        ELSE UnexpectedToken(t, p + (CHOOSE j \in differs : \A k \in differs : j <= k) - 1)

\* The two halves of a character above U+FFFF: a code unit U+D800 to U+DBFF
\* followed by one U+DC00 to U+DFFF
Surrogates ==
    [high |-> {"\\ud" \o a \o b \o c :
                  a \in {"8", "9", "a", "b"}, b \in Range(HexDigits), c \in Range(HexDigits)},
     low |-> {"\\ud" \o a \o b \o c :
                  a \in {"c", "d", "e", "f"}, b \in Range(HexDigits), c \in Range(HexDigits)}]

\* JSON.stringify of one code unit of a string taken by itself: the escapes
\* of the quote, the backslash and the control characters, and of a half
\* character (well-formed JSON.stringify)
QuoteChar(c) ==
    IF c = "\"" THEN <<"\\", "\"">>
    ELSE IF c = "\\" THEN <<"\\", "\\">>
    ELSE IF c = "\\u0008" THEN <<"\\", "b">>
    ELSE IF c = "\f" THEN <<"\\", "f">>
    ELSE IF c = "\n" THEN <<"\\", "n">>
    ELSE IF c = "\r" THEN <<"\\", "r">>
    ELSE IF c = "\t" THEN <<"\\", "t">>
    ELSE IF c \in ControlChars
    THEN LET h == CHOOSE h \in {"0", "1"} \X Range(HexDigits) : c = "\\u00" \o h[1] \o h[2]
         IN  <<"\\", "u", "0", "0", h[1], h[2]>>
    ELSE IF c \in Surrogates.high \cup Surrogates.low
    THEN LET h == CHOOSE h \in Range(HexDigits) \X Range(HexDigits) \X Range(HexDigits) :
                      c = "\\ud" \o h[1] \o h[2] \o h[3]
         IN  <<"\\", "u", "d", h[1], h[2], h[3]>>
    ELSE <<c>>

\* JSON.stringify of a string: the code units between quotes, each as
\* QuoteChar writes it except the two halves of a character above U+FFFF,
\* which are kept
Quote(s) ==
    LET Paired(n) ==
            \/ s[n] \in Surrogates.high /\ n < Len(s) /\ s[n + 1] \in Surrogates.low
            \/ s[n] \in Surrogates.low /\ n > 1 /\ s[n - 1] \in Surrogates.high
        F[n \in 0..Len(s)] ==
            IF n = 0 THEN <<"\"">>
            ELSE F[n - 1] \o (IF Paired(n) THEN <<s[n]>> ELSE QuoteChar(s[n]))
    IN  F[Len(s)] \o <<"\"">>

\* The JSON text of a value as a property holds it
JsonTextOf(held) == IF IsStringValue(held) THEN Quote(held) ELSE Tail(held)

\* JSON.stringify of an object and of an array, given their properties
ObjectText(props) ==
    LET F[n \in 0..Len(props.keys)] ==
            IF n = 0 THEN <<"{">>
            ELSE F[n - 1] \o (IF n > 1 THEN <<",">> ELSE <<>>)
                 \o Quote(props.keys[n]) \o <<":">> \o JsonTextOf(props.val[n])
    IN  F[Len(props.keys)] \o <<"}">>

ArrayText(props) ==
    LET F[n \in 0..Len(props.val)] ==
            IF n = 0 THEN <<"[">>
            ELSE F[n - 1] \o (IF n > 1 THEN <<",">> ELSE <<>>) \o JsonTextOf(props.val[n])
    IN  F[Len(props.val)] \o <<"]">>

\* The indexed properties of a string: one per character
StringProps(s) ==
    [keys |-> [i \in 1..Len(s) |-> Digits(i - 1)], val |-> [i \in 1..Len(s) |-> <<s[i]>>]]

\* ParseJsonValue: the value that starts at or after position p, then
\* (ParseJsonMembers, ParseJsonElements) the rest of the object or array it is
\* in
RECURSIVE ParseJsonValue(_, _)
RECURSIVE ParseJsonMembers(_, _, _)
RECURSIVE ParseJsonElements(_, _, _)

\* A property from position p, which follows "{" or ",": name, colon, value
\* and the rest of the object; st holds the properties so far, whether the
\* property is the first of the object and what to report when no name
\* follows.  A missing colon has a message of its own after the first name
\* only; after a later name it is reported as an unexpected token.
ParseJsonMembers(t, p, st) ==
    CHOOSE r \in
        { IF At(t, q) # "\"" THEN SyntaxErrorAt(st.message, q)
          ELSE CHOOSE r2 \in
            { IF ~name.ok THEN name
              ELSE CHOOSE r3 \in
                { IF At(t, colon) # ":"
                  THEN (IF st.first
                        THEN SyntaxErrorAt("Expected ':' after property name in JSON", colon)
                        ELSE UnexpectedToken(t, colon))
                  ELSE CHOOSE r4 \in
                    { IF ~v.ok THEN v
                      ELSE CHOOSE r5 \in
                        { IF At(t, next) = ","
                          THEN ParseJsonMembers(t, next + 1,
                                   [props |-> DefineProperty(st.props, name.value, v.value.held),
                                    first |-> FALSE,
                                    message |-> "Expected double-quoted property name in JSON"])
                          ELSE IF At(t, next) = "}"
                          THEN CHOOSE r6 \in
                                 { Parsed(next + 1,
                                          JsonValue("object",
                                                    <<"<object>">> \o ObjectText(props),
                                                    props))
                                   : props \in {DefineProperty(st.props, name.value,
                                                               v.value.held)} } : TRUE
                          ELSE SyntaxErrorAt("Expected ',' or '}' after property value in JSON", next)
                          : next \in {SkipWhitespace(t, v.pos)} } : TRUE
                      : v \in {ParseJsonValue(t, colon + 1)} } : TRUE
                  : colon \in {SkipWhitespace(t, name.pos)} } : TRUE
              : name \in {ScanJsonString(t, q + 1, <<>>)} } : TRUE
          : q \in {SkipWhitespace(t, p)} } : TRUE

\* An element from position p, which follows "[" or ",", and the rest of the
\* array, whose elements so far are elems
ParseJsonElements(t, p, elems) ==
    CHOOSE r \in
        { IF ~v.ok THEN v
          ELSE CHOOSE r2 \in
            { IF At(t, next) = ","
              THEN ParseJsonElements(t, next + 1, Append(elems, v.value.held))
              ELSE IF At(t, next) = "]"
              THEN CHOOSE r3 \in
                     { Parsed(next + 1,
                              JsonValue("array", <<"<array>">> \o ArrayText(props), props))
                       : props \in {[keys |-> [i \in 1..(Len(elems) + 1) |-> Digits(i - 1)],
                                     val |-> Append(elems, v.value.held)]} } : TRUE
              ELSE SyntaxErrorAt("Expected ',' or ']' after array element in JSON", next)
              : next \in {SkipWhitespace(t, v.pos)} } : TRUE
          : v \in {ParseJsonValue(t, p)} } : TRUE

ParseJsonValue(t, p) ==
    CHOOSE r \in
        { LET token == TokenOf(At(t, q))
              after == SkipWhitespace(t, q + 1)
          IN  IF token = "STRING"
              THEN CHOOSE r2 \in
                     { IF ~s.ok THEN s
                       ELSE Parsed(s.pos, JsonValue("string", s.value, StringProps(s.value)))
                       : s \in {ScanJsonString(t, q + 1, <<>>)} } : TRUE
              ELSE IF token = "NUMBER" THEN ParseJsonNumber(t, q)
              ELSE IF token = "LBRACE"
              THEN IF At(t, after) = "}"
                   THEN Parsed(after + 1,
                               JsonValue("object", <<"<object>", "{", "}">>, EmptyObj))
                   ELSE ParseJsonMembers(t, q + 1,
                            [props |-> EmptyObj,
                             first |-> TRUE,
                             message |-> "Expected property name or '}' in JSON"])
              ELSE IF token = "LBRACK"
              THEN IF At(t, after) = "]"
                   THEN Parsed(after + 1,
                               JsonValue("array", <<"<array>", "[", "]">>, EmptyObj))
                   ELSE ParseJsonElements(t, q + 1, <<>>)
              ELSE IF token = "TRUE_LITERAL"
              THEN ScanLiteral(t, q, <<"t", "r", "u", "e">>, "boolean", "<boolean>")
              ELSE IF token = "FALSE_LITERAL"
              THEN ScanLiteral(t, q, <<"f", "a", "l", "s", "e">>, "boolean", "<boolean>")
              ELSE IF token = "NULL_LITERAL"
              THEN ScanLiteral(t, q, <<"n", "u", "l", "l">>, "null", "<null>")
              ELSE UnexpectedToken(t, q)
          : q \in {SkipWhitespace(t, p)} } : TRUE

\* JSON.parse(text): a SyntaxError, or the parsed value given by its kind and
\* by its own enumerable properties (what { ...parsed } copies: the entries of
\* an object, the elements of an array, the characters of a string, nothing
\* for a number, a boolean or null)
JSONparse(text) ==
    CHOOSE r \in
        { IF ~v.ok THEN v
          ELSE IF SkipWhitespace(t, v.pos) <= Len(t)
          THEN SyntaxErrorAt("Unexpected non-whitespace character after JSON",
                             SkipWhitespace(t, v.pos))
          ELSE [ok |-> TRUE, kind |-> v.value.kind, value |-> v.value.props]
          : t \in {text}, v \in {ParseJsonValue(text, 1)} } : TRUE

\* ------------------------------------------------------------------------
\* Sample inputs of a pipeline run
\* ------------------------------------------------------------------------

kA == <<"A">>
kB == <<"B">>
kC == <<"C">>
kD == <<"D">>

\* Longest key list given to delete
MaxKeys == 3

EnvPath == <<".", "e", "n", "v">>

\* "A=1\nB=2"
FileAB == <<"A", "=", "1", "\n", "B", "=", "2">>
\* "# c\n\n"
FileComment == <<"#", " ", "c", "\n", "\n">>

\* The file system as readFileSync sees it
FileSystems ==
    { [readable |-> TRUE, content |-> FileAB],
      [readable |-> TRUE, content |-> FileComment],
      [readable |-> FALSE, content |-> <<>>] }

\* '{"B":"3","C":"4"}'
JsonBC == <<"{", "\"", "B", "\"", ":", "\"", "3", "\"", ",",
            "\"", "C", "\"", ":", "\"", "4", "\"", "}">>
\* '{}'
JsonEmpty == <<"{", "}">>
\* '{bad'
JsonBad == <<"{", "b", "a", "d">>

\* '{"B":"3","C":x}' : a value left unquoted
JsonUnquoted == <<"{", "\"", "B", "\"", ":", "\"", "3", "\"", ",",
                  "\"", "C", "\"", ":", "x", "}">>
\* '["x"]'
JsonArray == <<"[", "\"", "x", "\"", "]">>
\* '5'
JsonNumber == <<"5">>
\* '{"A":1}'
JsonNumValue == <<"{", "\"", "A", "\"", ":", "1", "}">>

\* 'null'
JsonNull == <<"n", "u", "l", "l">>
\* '"ab"'
JsonString == <<"\"", "a", "b", "\"">>
\* '{"__proto__":"y"}'
JsonProto == <<"{", "\"">> \o ProtoKey \o <<"\"", ":", "\"", "y", "\"", "}">>

JsonInputs == {<<>>, JsonBC, JsonEmpty, JsonBad, JsonUnquoted, JsonArray,
               JsonNumber, JsonNumValue, JsonNull, JsonString, JsonProto}

\* "C=5,D=6"
InlineCD == <<"C", "=", "5", ",", "D", "=", "6">>
\* "A=9"
InlineA == <<"A", "=", "9">>

\* "D=6, =x" : the second fragment has a blank name
InlineBlankKey == <<"D", "=", "6", ",", " ", "=", "x">>

\* "__proto__=x"
InlineProto == ProtoKey \o <<"=", "x">>

\* "A=1,1000000000=2" : the second name is an array index
InlineIndex == <<"A", "=", "1", ",", "1", "0", "0", "0", "0", "0", "0", "0", "0", "0",
                 "=", "2">>

\* "A=1,__proto__=x"
InlineAProto == <<"A", "=", "1", ",">> \o InlineProto

InlineInputs == {<<>>, InlineCD, InlineA, InlineBlankKey, InlineProto, InlineAProto,
                 InlineIndex}

\* keys inputs: every list of at most MaxKeys names joined by commas, and
\* two texts that hold separators and blanks only
KeyLists == UNION {[1..n -> {kA, kB}] : n \in 0..MaxKeys}
KeysInputs == {Join(l, ",") : l \in KeyLists} \cup {<<",", " ", "\n">>, <<" ">>}

\* Remote variable maps before the run
RemoteAZ == [keys |-> <<kA, <<"Z">>>>, val |-> <<<<"0">>, <<"7">>>>]
RemoteB == [keys |-> <<kB>>, val |-> <<<<"2">>>>]
Remotes == {EmptyObj, RemoteAZ, RemoteB}

\* Errors the remote client raises
NotFound == Err(404, <<"N", "F">>, Msg("{}", <<<<"H", "4", "0", "4">>>>))
ServerError == Err(500, <<>>, Msg("{}", <<<<"H", "5", "0", "0">>>>))
RemoteErrors == {NotFound, ServerError}

RequiredInputs == {"api_key", "app_name", "organization", "environment_name"}

OpList == <<"l", "i", "s", "t">>
OpSet == <<"s", "e", "t">>
OpClear == <<"c", "l", "e", "a", "r">>
OpDelete == <<"d", "e", "l", "e", "t", "e">>
OpBogus == <<"p", "u", "t">>

TextTrue == <<"t", "r", "u", "e">>
TextFalse == <<"f", "a", "l", "s", "e">>

\* Inputs of a run with every required input supplied and nothing else
BaseInputs ==
    [api_key |-> <<"k">>, app_name |-> <<"a">>, organization |-> <<"o">>,
     environment_name |-> <<"e">>, operation |-> <<>>, replace |-> <<>>,
     env_file |-> <<>>, json_vars |-> <<>>, variables |-> <<>>, keys |-> <<>>]

NoFile == [readable |-> FALSE, content |-> <<>>]

\* The runs explored: <<inputs, file system>>.  Inputs a run never reads
\* are left empty.
MissingRuns == {<<[BaseInputs EXCEPT ![r] = <<>>], NoFile>> : r \in RequiredInputs}
SimpleRuns ==
    {<<[BaseInputs EXCEPT !.operation = op], NoFile>> :
        op \in {<<>>, OpList, OpClear, OpBogus}}
DeleteRuns ==
    {<<[BaseInputs EXCEPT !.operation = OpDelete, !.keys = k], NoFile>> :
        k \in KeysInputs}
SetRuns ==
    {<<[BaseInputs EXCEPT !.operation = OpSet, !.replace = r, !.env_file = f[1],
                          !.json_vars = j, !.variables = v], f[2]>> :
        r \in {<<>>, TextTrue, TextFalse},
        f \in {<<<<>>, NoFile>>} \cup {<<EnvPath, fsys>> : fsys \in FileSystems},
        j \in JsonInputs,
        v \in InlineInputs}
Runs == MissingRuns \cup SimpleRuns \cup DeleteRuns \cup SetRuns

\* ------------------------------------------------------------------------
\* State
\* ------------------------------------------------------------------------

VARIABLES
    inputs,         \* the run's inputs (core.getInput reads them)
    fileSystem,     \* what fs.readFileSync finds at the env_file path
    remote,         \* the remote environment's variables
    pc,             \* position of run(): start, await_<call>, done
    mergedVars,     \* `vars`, the merged map of a set run
    keys,           \* Object.keys(vars) (set) or the parsed key list (delete)
    idx,            \* index in keys of the call in flight
    okCount,        \* the loop counter `updated` / `deleted`
    failed,         \* the loop counter `failed`
    calls,          \* remote calls issued so far, in order
    outputs,        \* values written by core.setOutput, per name, in order
    log,            \* core.info / warning / error lines, in order
    failure,        \* messages passed to core.setFailed, in order
    replies,        \* how each settled remote call ended, in call order
    remoteAtStart   \* the remote environment's variables before the run

vars == <<inputs, fileSystem, remote, pc, mergedVars, keys, idx, okCount, failed,
          calls, outputs, log, failure, replies, remoteAtStart>>

OutputNames == {"variables", "count", "updated_count", "deleted_count", "failed_count"}

All == <<"a", "l", "l">>

\* How a remote call ended
Returned == [ok |-> TRUE, statusCode |-> 200]
Thrown(e) == [ok |-> FALSE, statusCode |-> e.statusCode]

Call(api, key, value, environment) ==
    [api |-> api, key |-> key, value |-> value, environment |-> environment]

\* SetFailed reached twice for one error (an inner catch that also reports)
SetFailedTwice(lg, message) ==
    /\ failure' = failure \o <<message, message>>
    /\ log' = lg \o <<[level |-> "error", text |-> message],
                      [level |-> "error", text |-> message]>>
    /\ pc' = "done"

\* core.setFailed(message): records the failure and logs it as an error
SetFailed(lg, message) ==
    /\ failure' = Append(failure, message)
    /\ log' = Append(lg, [level |-> "error", text |-> message])
    /\ pc' = "done"

\* core.setOutput(name, value) for each <<name, value>> of ws, in order
SetOutputs(out, ws) ==
    LET F[n \in 0..Len(ws)] ==
            IF n = 0 THEN out
            ELSE [F[n-1] EXCEPT ![ws[n][1]] = Append(@, ws[n][2])]
    IN  F[Len(ws)]

\* core.getInput(name): the value, trimmed
GetInput(name) == Trim(inputs[name])

\* The first required input that is not supplied, if any
MissingRequired ==
    LET order == <<"api_key", "app_name", "organization", "environment_name">>
        miss == {i \in 1..4 : inputs[order[i]] = <<>>}
    IN  IF miss = {} THEN "" ELSE order[CHOOSE i \in miss : \A j \in miss : i <= j]

\* core.getInput('operation') || 'list'
Operation == IF GetInput("operation") = <<>> THEN OpList ELSE GetInput("operation")

\* core.getInput('replace') === 'true'
Replace == GetInput("replace") = TextTrue

\* The two log lines run() writes before dispatching
Banner ==
    <<LogEntry("info", "Quant Cloud Environment Variables Action", <<>>),
      LogEntry("info", "Operation: {}", <<Operation>>)>>

Init ==
    /\ \E r \in Runs : inputs = r[1] /\ fileSystem = r[2]
    /\ remote \in Remotes
    /\ pc = "start"
    /\ mergedVars = EmptyObj
    /\ keys = <<>>
    /\ idx = 0
    /\ okCount = 0
    /\ failed = 0
    /\ calls = <<>>
    /\ outputs = [n \in OutputNames |-> <<>>]
    /\ log = <<>>
    /\ failure = <<>>
    /\ replies = <<>>
    /\ remoteAtStart = remote

\* ------------------------------------------------------------------------
\* run(): a required input is missing, or the operation is unknown
\* ------------------------------------------------------------------------

StartMissingInput ==
    /\ pc = "start"
    /\ UNCHANGED replies
    /\ MissingRequired # ""
    /\ SetFailed(log, Msg("Input required and not supplied: " \o MissingRequired, <<>>))
    /\ UNCHANGED <<inputs, fileSystem, remoteAtStart, remote, mergedVars, keys, idx, okCount,
                   failed, calls, outputs>>

StartUnknown ==
    /\ pc = "start"
    /\ UNCHANGED replies
    /\ MissingRequired = ""
    /\ Operation \notin {OpList, OpClear, OpDelete, OpSet}
    /\ SetFailed(log \o Banner,
                 Msg("Unknown operation: {}. Valid operations are: list, set, clear, delete",
                     <<Operation>>))
    /\ UNCHANGED <<inputs, fileSystem, remoteAtStart, remote, mergedVars, keys, idx, okCount,
                   failed, calls, outputs>>

\* ------------------------------------------------------------------------
\* list
\* ------------------------------------------------------------------------

StartList ==
    /\ pc = "start"
    /\ UNCHANGED replies
    /\ MissingRequired = ""
    /\ Operation = OpList
    /\ log' = log \o Banner \o
              <<LogEntry("info", "Listing variables for environment: {}",
                         <<GetInput("environment_name")>>)>>
    /\ calls' = Append(calls, Call("list", <<>>, <<>>, <<>>))
    /\ pc' = "await_list"
    /\ UNCHANGED <<inputs, fileSystem, remoteAtStart, remote, mergedVars, keys, idx, okCount,
                   failed, outputs, failure>>

\* "  - key" for each key, in order
KeyLines(ks) == [i \in 1..Len(ks) |-> LogEntry("info", "  - {}", <<ks[i]>>)]

ListReturns ==
    /\ pc = "await_list"
    /\ replies' = Append(replies, Returned)
    /\ LET variables == remote
           n == Len(variables.keys)
       IN  /\ log' = log \o <<LogEntry("info", "Found {} variable(s)", <<Digits(n)>>)>>
                         \o KeyLines(variables.keys)
           /\ outputs' = SetOutputs(outputs, << <<"variables", variables>>,
                                               <<"count", Digits(n)>> >>)
    /\ pc' = "done"
    /\ UNCHANGED <<inputs, fileSystem, remoteAtStart, remote, mergedVars, keys, idx, okCount,
                   failed, calls, failure>>

\* ListThrows with the error swallowed and an empty map reported
ListThrowsSwallowed(e) ==
    /\ pc = "await_list"
    /\ replies' = Append(replies, Thrown(e))
    /\ log' = Append(log, LogEntry("info", "Found {} variable(s)", <<Digits(0)>>))
    /\ outputs' = SetOutputs(outputs, << <<"variables", EmptyObj>>,
                                        <<"count", Digits(0)>> >>)
    /\ pc' = "done"
    /\ UNCHANGED <<inputs, fileSystem, remoteAtStart, remote, mergedVars, keys, idx,
                   okCount, failed, calls, failure>>

ListThrows(e) ==
    /\ pc = "await_list"
    /\ replies' = Append(replies, Thrown(e))
    /\ SetFailed(log, FailText(e))
    /\ UNCHANGED <<inputs, fileSystem, remoteAtStart, remote, mergedVars, keys, idx, okCount,
                   failed, calls, outputs>>

\* ------------------------------------------------------------------------
\* The remote collaborator's effect on the stored variables
\* ------------------------------------------------------------------------

\* bulkSet: the stored map becomes exactly the entries sent
RemoteBulkSet(environment) ==
    LET F[n \in 0..Len(environment)] ==
            IF n = 0 THEN EmptyObj
            ELSE DefineProperty(F[n-1], environment[n].name, environment[n].value)
    IN  F[Len(environment)]

\* update: upsert of one key
RemoteUpdate(rem, key, value) == DefineProperty(rem, key, value)

\* delete: the key is gone afterwards
RemoteDelete(rem, key) == RemoveKey(rem, key)

\* ------------------------------------------------------------------------
\* clear
\* ------------------------------------------------------------------------

\* StartClear starting with a list call, as a list-then-delete clear would
StartClearListsFirst ==
    /\ pc = "start"
    /\ UNCHANGED replies
    /\ MissingRequired = ""
    /\ Operation = OpClear
    /\ log' = log \o Banner \o
              <<LogEntry("info", "Clearing all variables for environment: {}",
                         <<GetInput("environment_name")>>)>>
    /\ calls' = Append(calls, Call("list", <<>>, <<>>, <<>>))
    /\ pc' = "await_clear"
    /\ UNCHANGED <<inputs, fileSystem, remoteAtStart, remote, mergedVars, keys, idx,
                   okCount, failed, outputs, failure>>

StartClear ==
    /\ pc = "start"
    /\ UNCHANGED replies
    /\ MissingRequired = ""
    /\ Operation = OpClear
    /\ log' = log \o Banner \o
              <<LogEntry("info", "Clearing all variables for environment: {}",
                         <<GetInput("environment_name")>>)>>
    /\ calls' = Append(calls, Call("bulkSet", <<>>, <<>>, <<>>))
    /\ pc' = "await_clear"
    /\ UNCHANGED <<inputs, fileSystem, remoteAtStart, remote, mergedVars, keys, idx, okCount,
                   failed, outputs, failure>>

\* ClearReturns reporting the number of variables instead of "all"
ClearReturnsCounts ==
    /\ pc = "await_clear"
    /\ replies' = Append(replies, Returned)
    /\ remote' = RemoteBulkSet(calls[Len(calls)].environment)
    /\ log' = Append(log, LogEntry("info", "\\u2713 All variables cleared successfully", <<>>))
    /\ outputs' = SetOutputs(outputs, << <<"deleted_count", Digits(Len(remote.keys))>>,
                                        <<"failed_count", Digits(0)>> >>)
    /\ pc' = "done"
    /\ UNCHANGED <<inputs, fileSystem, remoteAtStart, mergedVars, keys, idx, okCount,
                   failed, calls, failure>>

ClearReturns ==
    /\ pc = "await_clear"
    /\ replies' = Append(replies, Returned)
    /\ remote' = RemoteBulkSet(calls[Len(calls)].environment)
    /\ log' = Append(log, LogEntry("info", "\\u2713 All variables cleared successfully", <<>>))
    /\ outputs' = SetOutputs(outputs, << <<"deleted_count", All>>,
                                        <<"failed_count", Digits(0)>> >>)
    /\ pc' = "done"
    /\ UNCHANGED <<inputs, fileSystem, remoteAtStart, mergedVars, keys, idx, okCount, failed,
                   calls, failure>>

ClearThrows(e) ==
    /\ pc = "await_clear"
    /\ replies' = Append(replies, Thrown(e))
    /\ SetFailed(Append(log, [level |-> "error",
                              text |-> Interpolate("Failed to clear variables: ",
                                                   <<>>, ErrorText(e))]),
                 FailText(e))
    /\ UNCHANGED <<inputs, fileSystem, remoteAtStart, remote, mergedVars, keys, idx, okCount,
                   failed, calls, outputs>>
\* ------------------------------------------------------------------------
\* delete
\* ------------------------------------------------------------------------

StartDelete ==
    /\ pc = "start"
    /\ UNCHANGED replies
    /\ MissingRequired = ""
    /\ Operation = OpDelete
    /\ \E ks \in {parseKeys(GetInput("keys"))} :
           IF inputs.keys = <<>>
           THEN /\ SetFailed(log \o Banner,
                             Msg("Input required and not supplied: keys", <<>>))
                /\ UNCHANGED <<keys, idx, calls>>
           ELSE IF Len(ks) = 0
           THEN /\ SetFailed(log \o Banner,
                             Msg("No keys provided for delete operation", <<>>))
                /\ UNCHANGED <<keys, idx, calls>>
           ELSE /\ log' = log \o Banner \o
                          <<LogEntry("info", "Deleting {} variable(s)...",
                                     <<Digits(Len(ks))>>)>>
                /\ keys' = ks
                /\ idx' = 1
                /\ calls' = Append(calls, Call("delete", ks[1], <<>>, <<>>))
                /\ pc' = "await_delete"
                /\ UNCHANGED failure
    /\ UNCHANGED <<inputs, fileSystem, remoteAtStart, remote, mergedVars, okCount, failed, outputs>>

\* DeleteResume failing the run when a key failed, as the set loop does
DeleteResumeFailsRun(lg, d, f) ==
    /\ okCount' = d
    /\ failed' = f
    /\ IF idx < Len(keys)
       THEN /\ idx' = idx + 1
            /\ calls' = Append(calls, Call("delete", keys[idx + 1], <<>>, <<>>))
            /\ log' = lg
            /\ UNCHANGED <<pc, outputs, failure>>
       ELSE /\ outputs' = SetOutputs(outputs, << <<"deleted_count", Digits(d)>>,
                                                <<"failed_count", Digits(f)>> >>)
            /\ UNCHANGED <<idx, calls>>
            /\ LET lg2 == Append(lg, LogEntry("info", "Deleted {} variable(s), {} failed",
                                              <<Digits(d), Digits(f)>>))
               IN  IF f > 0
                   THEN SetFailed(lg2, Msg("Failed to delete {} variable(s)", <<Digits(f)>>))
                   ELSE /\ log' = lg2
                        /\ pc' = "done"
                        /\ UNCHANGED failure
    /\ UNCHANGED <<inputs, fileSystem, remoteAtStart, mergedVars, keys>>

\* The rest of the delete loop after the call for keys[idx] has settled with
\* log lg and counters d, f: the next call, or the summary after the loop.
DeleteResume(lg, d, f) ==
    /\ okCount' = d
    /\ failed' = f
    /\ IF idx < Len(keys)
       THEN /\ idx' = idx + 1
            /\ calls' = Append(calls, Call("delete", keys[idx + 1], <<>>, <<>>))
            /\ log' = lg
            /\ UNCHANGED <<pc, outputs>>
       ELSE /\ log' = Append(lg, LogEntry("info", "Deleted {} variable(s), {} failed",
                                          <<Digits(d), Digits(f)>>))
            /\ outputs' = SetOutputs(outputs, << <<"deleted_count", Digits(d)>>,
                                                <<"failed_count", Digits(f)>> >>)
            /\ pc' = "done"
            /\ UNCHANGED <<idx, calls>>
    /\ UNCHANGED <<inputs, fileSystem, remoteAtStart, mergedVars, keys, failure>>

DeleteReturns ==
    /\ pc = "await_delete"
    /\ replies' = Append(replies, Returned)
    /\ remote' = RemoteDelete(remote, keys[idx])
    /\ DeleteResume(Append(log, LogEntry("info", "  \\u2713 Deleted: {}", <<keys[idx]>>)),
                    okCount + 1, failed)

\* DeleteThrows counting a 404 as a failure like any other error
DeleteThrowsNotFoundFails(e) ==
    /\ pc = "await_delete"
    /\ replies' = Append(replies, Thrown(e))
    /\ UNCHANGED remote
    /\ DeleteResume(Append(log, [level |-> "warning",
                                 text |-> Interpolate("  \\u2717 Failed to delete {}: ",
                                                      <<keys[idx]>>, ErrorText(e))]),
                    okCount, failed + 1)

DeleteThrows(e) ==
    /\ pc = "await_delete"
    /\ replies' = Append(replies, Thrown(e))
    /\ UNCHANGED remote
    /\ IF e.statusCode = 404
       THEN DeleteResume(Append(log, LogEntry("info", "  - Not found (already deleted): {}",
                                              <<keys[idx]>>)),
                         okCount + 1, failed)
       ELSE DeleteResume(Append(log, [level |-> "warning",
                                      text |-> Interpolate("  \\u2717 Failed to delete {}: ",
                                                           <<keys[idx]>>, ErrorText(e))]),
                         okCount, failed + 1)

\* ------------------------------------------------------------------------
\* set
\* ------------------------------------------------------------------------

\* parseVariables with the JSON.parse error caught and the source skipped
parseVariablesSkipsBadJson(envFile, jsonVars, variables) ==
    CHOOSE r \in
        { LET log1 == IF envFile # <<>>
                      THEN <<LogEntry("info", "Loading variables from .env file: {}", <<envFile>>)>>
                      ELSE <<>>
              res1 == IF envFile # <<>> /\ fileSystem.readable
                      THEN Spread(EmptyObj, parseEnvFile(fileSystem.content))
                      ELSE EmptyObj
              log2 == IF jsonVars # <<>>
                      THEN Append(log1, LogEntry("info", "Loading variables from JSON", <<>>))
                      ELSE log1
              res2 == IF jsonVars # <<>> /\ parsed.ok THEN Spread(res1, parsed.value) ELSE res1
              log3 == IF variables # <<>>
                      THEN Append(log2, LogEntry("info", "Loading individual variables", <<>>))
                      ELSE log2
              res3 == IF variables # <<>> THEN parseInline(res2, variables) ELSE res2
          IN  IF envFile # <<>> /\ ~fileSystem.readable
              THEN [ok |-> FALSE, log |-> log1,
                    error |-> NewError(Msg("ENOENT: no such file or directory, open '{}'",
                                           <<envFile>>))]
              ELSE [ok |-> TRUE, log |-> log3, result |-> res3]
          : parsed \in {JSONparse(jsonVars)} } : TRUE

\* parseVariables(envFile, jsonVars, variables): the merged object, or the
\* error thrown, with the log lines written on the way
parseVariables(envFile, jsonVars, variables) ==
    CHOOSE r \in
        { LET log1 == IF envFile # <<>>
                      THEN <<LogEntry("info", "Loading variables from .env file: {}", <<envFile>>)>>
                      ELSE <<>>
              res1 == IF envFile # <<>> /\ fileSystem.readable
                      THEN Spread(EmptyObj, parseEnvFile(fileSystem.content))
                      ELSE EmptyObj
              log2 == IF jsonVars # <<>>
                      THEN Append(log1, LogEntry("info", "Loading variables from JSON", <<>>))
                      ELSE log1
              res2 == IF jsonVars # <<>> /\ parsed.ok THEN Spread(res1, parsed.value) ELSE res1
              log3 == IF variables # <<>>
                      THEN Append(log2, LogEntry("info", "Loading individual variables", <<>>))
                      ELSE log2
              res3 == IF variables # <<>> THEN parseInline(res2, variables) ELSE res2
          IN  IF envFile # <<>> /\ ~fileSystem.readable
              THEN [ok |-> FALSE, log |-> log1,
                    error |-> NewError(Msg("ENOENT: no such file or directory, open '{}'",
                                           <<envFile>>))]
              ELSE IF jsonVars # <<>> /\ ~parsed.ok
              THEN [ok |-> FALSE, log |-> log2, error |-> parsed.error]
              ELSE [ok |-> TRUE, log |-> log3, result |-> res3]
          : parsed \in {JSONparse(jsonVars)} } : TRUE

\* BulkEntries leaving out the last key (keys.slice(0, -1).map(...))
BulkEntriesDropLast(ks, vs) ==
    [i \in 1..(Len(ks) - 1) |-> [name |-> ks[i], value |-> Get(vs, ks[i])]]

\* keys.map(key => ({ name: key, value: vars[key] }))
BulkEntries(ks, vs) == [i \in 1..Len(ks) |-> [name |-> ks[i], value |-> Get(vs, ks[i])]]

\* UpdateCall sending the key where the value belongs ({ value: key })
UpdateCallKeyAsValue(ks, vs, i) == Call("update", ks[i], ks[i], <<>>)

\* { value: vars[key] } for the update of keys[i]
UpdateCall(ks, vs, i) == Call("update", ks[i], Get(vs, ks[i]), <<>>)

\* StartSet without the `if (keys.length === 0) return`
StartSetSendsEmpty ==
    /\ pc = "start"
    /\ UNCHANGED replies
    /\ MissingRequired = ""
    /\ Operation = OpSet
    /\ LET envFile == GetInput("env_file")
           jsonVars == GetInput("json_vars")
           variables == GetInput("variables")
       IN  \E p \in {parseVariables(envFile, jsonVars, variables)} :
           LET ks == p.result.keys
               lg == log \o Banner \o p.log \o
                     <<LogEntry("info",
                                IF Replace
                                THEN "Setting {} variable(s)... (replace mode - bulk API)"
                                ELSE "Setting {} variable(s)... (merge mode - individual updates)",
                                <<Digits(Len(ks))>>)>>
           IN
           IF envFile = <<>> /\ jsonVars = <<>> /\ variables = <<>>
           THEN /\ SetFailed(log \o Banner,
                             Msg("At least one of env_file, json_vars, or variables must be provided for set operation", <<>>))
                /\ UNCHANGED <<mergedVars, keys, idx, calls, outputs>>
           ELSE IF ~p.ok
           THEN /\ SetFailed(log \o Banner \o p.log, FailText(p.error))
                /\ UNCHANGED <<mergedVars, keys, idx, calls, outputs>>
           ELSE /\ mergedVars' = p.result
                /\ keys' = ks
                /\ UNCHANGED failure
                /\ IF Replace
                   THEN /\ calls' = Append(calls, Call("bulkSet", <<>>, <<>>,
                                                       BulkEntries(ks, p.result)))
                        /\ log' = lg
                        /\ pc' = "await_bulk"
                        /\ UNCHANGED <<idx, outputs>>
                   ELSE IF Len(ks) = 0
                   THEN /\ log' = Append(lg, LogEntry("info", "Set {} variable(s), {} failed",
                                                      <<Digits(0), Digits(0)>>))
                        /\ outputs' = SetOutputs(outputs, << <<"updated_count", Digits(0)>>,
                                                            <<"failed_count", Digits(0)>> >>)
                        /\ pc' = "done"
                        /\ UNCHANGED <<idx, calls>>
                   ELSE /\ calls' = Append(calls, UpdateCall(ks, p.result, 1))
                        /\ log' = lg
                        /\ idx' = 1
                        /\ pc' = "await_update"
                        /\ UNCHANGED outputs
    /\ UNCHANGED <<inputs, fileSystem, remoteAtStart, remote, okCount, failed>>

\* run(), operation set, up to the first awaited call
StartSet ==
    /\ pc = "start"
    /\ UNCHANGED replies
    /\ MissingRequired = ""
    /\ Operation = OpSet
    /\ LET envFile == GetInput("env_file")
           jsonVars == GetInput("json_vars")
           variables == GetInput("variables")
       IN  \E p \in {parseVariables(envFile, jsonVars, variables)} :
           LET ks == p.result.keys
           IN
           IF envFile = <<>> /\ jsonVars = <<>> /\ variables = <<>>
           THEN /\ SetFailed(log \o Banner,
                             Msg("At least one of env_file, json_vars, or variables must be provided for set operation", <<>>))
                /\ UNCHANGED <<mergedVars, keys, idx, calls>>
           ELSE IF ~p.ok
           THEN /\ SetFailed(log \o Banner \o p.log, FailText(p.error))
                /\ UNCHANGED <<mergedVars, keys, idx, calls>>
           ELSE IF Len(ks) = 0
           THEN /\ log' = log \o Banner \o p.log \o
                          <<LogEntry("warning", "No variables to set", <<>>)>>
                /\ mergedVars' = p.result
                /\ pc' = "done"
                /\ UNCHANGED <<keys, idx, calls, failure>>
           ELSE /\ log' = log \o Banner \o p.log \o
                          <<LogEntry("info",
                                     IF Replace
                                     THEN "Setting {} variable(s)... (replace mode - bulk API)"
                                     ELSE "Setting {} variable(s)... (merge mode - individual updates)",
                                     <<Digits(Len(ks))>>)>>
                /\ mergedVars' = p.result
                /\ keys' = ks
                /\ IF Replace
                   THEN /\ calls' = Append(calls, Call("bulkSet", <<>>, <<>>,
                                                       BulkEntries(ks, p.result)))
                        /\ pc' = "await_bulk"
                        /\ UNCHANGED idx
                   ELSE /\ calls' = Append(calls, UpdateCall(ks, p.result, 1))
                        /\ idx' = 1
                        /\ pc' = "await_update"
                /\ UNCHANGED failure
    /\ UNCHANGED <<inputs, fileSystem, remoteAtStart, remote, okCount, failed, outputs>>

BulkReturns ==
    /\ pc = "await_bulk"
    /\ replies' = Append(replies, Returned)
    /\ remote' = RemoteBulkSet(calls[Len(calls)].environment)
    /\ log' = log \o <<LogEntry("info",
                                "\\u2713 Successfully replaced all variables with {} new variable(s)",
                                <<Digits(Len(keys))>>)>>
                  \o KeyLines(keys)
    /\ outputs' = SetOutputs(outputs, << <<"updated_count", Digits(Len(keys))>>,
                                        <<"failed_count", Digits(0)>> >>)
    /\ pc' = "done"
    /\ UNCHANGED <<inputs, fileSystem, remoteAtStart, mergedVars, keys, idx, okCount, failed,
                   calls, failure>>

\* BulkThrows with the two counts written the wrong way round
BulkThrowsSwapped(e) ==
    /\ pc = "await_bulk"
    /\ replies' = Append(replies, Thrown(e))
    /\ outputs' = SetOutputs(outputs, << <<"updated_count", Digits(Len(keys))>>,
                                        <<"failed_count", Digits(0)>> >>)
    /\ SetFailed(Append(log, [level |-> "error",
                              text |-> Interpolate("Failed to set variables: ",
                                                   <<>>, ErrorText(e))]),
                 FailText(e))
    /\ UNCHANGED <<inputs, fileSystem, remoteAtStart, remote, mergedVars, keys, idx,
                   okCount, failed, calls>>

BulkThrows(e) ==
    /\ pc = "await_bulk"
    /\ replies' = Append(replies, Thrown(e))
    /\ outputs' = SetOutputs(outputs, << <<"updated_count", Digits(0)>>,
                                        <<"failed_count", Digits(Len(keys))>> >>)
    /\ SetFailed(Append(log, [level |-> "error",
                              text |-> Interpolate("Failed to set variables: ",
                                                   <<>>, ErrorText(e))]),
                 FailText(e))
    /\ UNCHANGED <<inputs, fileSystem, remoteAtStart, remote, mergedVars, keys, idx, okCount,
                   failed, calls>>

\* UpdateResume without the final `if (failed > 0) throw`
UpdateResumeNeverFails(lg, u, f) ==
    /\ okCount' = u
    /\ failed' = f
    /\ IF idx < Len(keys)
       THEN /\ idx' = idx + 1
            /\ calls' = Append(calls, UpdateCall(keys, mergedVars, idx + 1))
            /\ log' = lg
            /\ UNCHANGED <<pc, outputs, failure>>
       ELSE /\ outputs' = SetOutputs(outputs, << <<"updated_count", Digits(u)>>,
                                                <<"failed_count", Digits(f)>> >>)
            /\ UNCHANGED <<idx, calls, failure>>
            /\ log' = Append(lg, LogEntry("info", "Set {} variable(s), {} failed",
                                          <<Digits(u), Digits(f)>>))
            /\ pc' = "done"
    /\ UNCHANGED <<inputs, fileSystem, remoteAtStart, mergedVars, keys>>

\* UpdateResume leaving the loop at the first failed update
UpdateResumeStopsAtFailure(lg, u, f) ==
    /\ okCount' = u
    /\ failed' = f
    /\ IF idx < Len(keys) /\ f = 0
       THEN /\ idx' = idx + 1
            /\ calls' = Append(calls, UpdateCall(keys, mergedVars, idx + 1))
            /\ log' = lg
            /\ UNCHANGED <<pc, outputs, failure>>
       ELSE /\ outputs' = SetOutputs(outputs, << <<"updated_count", Digits(u)>>,
                                                <<"failed_count", Digits(f)>> >>)
            /\ UNCHANGED <<idx, calls>>
            /\ LET lg2 == Append(lg, LogEntry("info", "Set {} variable(s), {} failed",
                                              <<Digits(u), Digits(f)>>))
               IN  IF f > 0
                   THEN SetFailed(lg2, Msg("Failed to set {} variable(s)", <<Digits(f)>>))
                   ELSE /\ log' = lg2
                        /\ pc' = "done"
                        /\ UNCHANGED failure
    /\ UNCHANGED <<inputs, fileSystem, remoteAtStart, mergedVars, keys>>

\* The rest of the merge loop after the call for keys[idx] has settled with
\* log lg and counters u, f: the next call, or the code after the loop.
UpdateResume(lg, u, f) ==
    /\ okCount' = u
    /\ failed' = f
    /\ IF idx < Len(keys)
       THEN /\ idx' = idx + 1
            /\ calls' = Append(calls, UpdateCall(keys, mergedVars, idx + 1))
            /\ log' = lg
            /\ UNCHANGED <<pc, outputs, failure>>
       ELSE /\ outputs' = SetOutputs(outputs, << <<"updated_count", Digits(u)>>,
                                                <<"failed_count", Digits(f)>> >>)
            /\ UNCHANGED <<idx, calls>>
            /\ LET lg2 == Append(lg, LogEntry("info", "Set {} variable(s), {} failed",
                                              <<Digits(u), Digits(f)>>))
               IN  IF f > 0
                   THEN SetFailed(lg2, Msg("Failed to set {} variable(s)", <<Digits(f)>>))
                   ELSE /\ log' = lg2
                        /\ pc' = "done"
                        /\ UNCHANGED failure
    /\ UNCHANGED <<inputs, fileSystem, remoteAtStart, mergedVars, keys>>

UpdateReturns ==
    /\ pc = "await_update"
    /\ replies' = Append(replies, Returned)
    /\ remote' = RemoteUpdate(remote, keys[idx], calls[Len(calls)].value)
    /\ UpdateResume(Append(log, LogEntry("info", "  \\u2713 Set: {}", <<keys[idx]>>)),
                    okCount + 1, failed)

UpdateThrows(e) ==
    /\ pc = "await_update"
    /\ replies' = Append(replies, Thrown(e))
    /\ UNCHANGED remote
    /\ UpdateResume(Append(log, [level |-> "warning",
                                 text |-> Interpolate("  \\u2717 Failed to set {}: ",
                                                      <<keys[idx]>>, ErrorText(e))]),
                    okCount, failed + 1)

\* ------------------------------------------------------------------------
\* Specification
\* ------------------------------------------------------------------------

Next ==
    \/ StartMissingInput
    \/ StartUnknown
    \/ StartList
    \/ ListReturns
    \/ \E e \in RemoteErrors : ListThrows(e)
    \/ StartClear
    \/ ClearReturns
    \/ \E e \in RemoteErrors : ClearThrows(e)
    \/ StartDelete
    \/ DeleteReturns
    \/ \E e \in RemoteErrors : DeleteThrows(e)
    \/ StartSet
    \/ BulkReturns
    \/ \E e \in RemoteErrors : BulkThrows(e)
    \/ UpdateReturns
    \/ \E e \in RemoteErrors : UpdateThrows(e)

Spec == Init /\ [][Next]_vars

\* Every remote call returns, and run() then continues
FairSpec == Spec /\ WF_vars(Next)

TypeOK ==
    /\ pc \in {"start", "await_list", "await_clear", "await_delete", "await_bulk",
               "await_update", "done"}
    /\ idx \in 0..Len(keys)
    /\ okCount + failed <= Len(keys)
    /\ Len(replies) = Len(calls) - (IF pc \in {"start", "done"} THEN 0 ELSE 1)

\* ------------------------------------------------------------------------
\* The parsers on their own: parseEnvFile and parseVariables called directly
\* on bounded texts
\* ------------------------------------------------------------------------

\* Longest generated text
MaxLen == 5

\* Every text of at most n characters of the alphabet
Texts(alphabet, n) == UNION {[1..k -> alphabet] : k \in 0..n}

FileAlphabet == {"A", "=", "\n", " ", "\"", "\f"}
InlineAlphabet == {"A", "=", ",", "\n", " ", "\f"}

\* "A=1,B=2=3"
InlineExample == <<"A", "=", "1", ",", "B", "=", "2", "=", "3">>
\* "A=1\nA=2"
InlineTwice == <<"A", "=", "1", "\n", "A", "=", "2">>
\* "# c\nK=\nQ\nA=' x '\n"
FileMixed == <<"#", " ", "c", "\n", "K", "=", "\n", "Q", "\n",
               "A", "=", "'", " ", "x", " ", "'", "\n">>

\* "A=1\u2028B\nB=2" : a line separator inside the first line
FileSeparator == <<"A", "=", "1", "\\u2028", "B", "\n", "B", "=", "2">>
\* "__proto__=\nA=1"
FileProto == ProtoKey \o <<"=", "\n", "A", "=", "1">>
\* "__proto__="
InlineProtoEmpty == ProtoKey \o <<"=">>

\* Calls of parseEnvFile(content)
ParseEnvFileCalls ==
    {<<BaseInputs, [readable |-> TRUE, content |-> t]>> :
        t \in Texts(FileAlphabet, MaxLen)
              \cup {FileAB, FileComment, FileMixed, FileSeparator, FileProto}}

\* Calls of parseVariables(envFile, jsonVars, variables): the inline source
\* alone on every text, and the sample sources in every combination
ParseVariablesCalls ==
    {<<[BaseInputs EXCEPT !.variables = t], NoFile>> :
        t \in Texts(InlineAlphabet, MaxLen)
              \cup {InlineExample, InlineTwice, InlineProtoEmpty}}
    \cup
    {<<[BaseInputs EXCEPT !.env_file = f[1], !.json_vars = j, !.variables = v], f[2]>> :
        f \in {<<<<>>, NoFile>>} \cup {<<EnvPath, fsys>> : fsys \in FileSystems},
        j \in JsonInputs,
        v \in InlineInputs}

ParseInit ==
    /\ \/ /\ pc = "call_parseEnvFile"
          /\ \E c \in ParseEnvFileCalls : inputs = c[1] /\ fileSystem = c[2]
       \/ /\ pc = "call_parseVariables"
          /\ \E c \in ParseVariablesCalls : inputs = c[1] /\ fileSystem = c[2]
    /\ remote = EmptyObj
    /\ mergedVars = EmptyObj
    /\ keys = <<>>
    /\ idx = 0
    /\ okCount = 0
    /\ failed = 0
    /\ calls = <<>>
    /\ outputs = [n \in OutputNames |-> <<>>]
    /\ log = <<>>
    /\ failure = <<>>
    /\ replies = <<>>
    /\ remoteAtStart = remote

\* result = parseEnvFile(content)
CallParseEnvFile ==
    /\ pc = "call_parseEnvFile"
    /\ mergedVars' = parseEnvFile(fileSystem.content)
    /\ pc' = "returned_parseEnvFile"
    /\ UNCHANGED <<inputs, fileSystem, remoteAtStart, remote, keys, idx, okCount,
                   failed, calls, outputs, log, failure, replies>>

\* result = parseVariables(envFile, jsonVars, variables), or the error thrown
CallParseVariables ==
    /\ pc = "call_parseVariables"
    /\ \E p \in {parseVariables(inputs.env_file, inputs.json_vars, inputs.variables)} :
           /\ log' = log \o p.log
           /\ IF p.ok
              THEN mergedVars' = p.result /\ pc' = "returned_parseVariables"
              ELSE UNCHANGED mergedVars /\ pc' = "threw_parseVariables"
    /\ UNCHANGED <<inputs, fileSystem, remoteAtStart, remote, keys, idx, okCount,
                   failed, calls, outputs, failure, replies>>

ParseNext == CallParseEnvFile \/ CallParseVariables

ParseSpec == ParseInit /\ [][ParseNext]_vars

\* ------------------------------------------------------------------------
\* Properties
\* ------------------------------------------------------------------------

Done == pc = "done"
MergeRun == MissingRequired = "" /\ Operation = OpSet /\ ~Replace
ReplaceRun == MissingRequired = "" /\ Operation = OpSet /\ Replace
DeleteRun == MissingRequired = "" /\ Operation = OpDelete
ClearRun == MissingRequired = "" /\ Operation = OpClear
MarkedFailed == failure # <<>>
KeyList == parseKeys(GetInput("keys"))
MergedSize == Len(mergedVars.keys)

NumReturned == Cardinality({i \in 1..Len(replies) : replies[i].ok})
NumThrown == Cardinality({i \in 1..Len(replies) : ~replies[i].ok})
NumNotFound == Cardinality({i \in 1..Len(replies) : replies[i].statusCode = 404})

\* C1: a merge-mode set run with a non-empty merged map has, when it ends,
\* made one call per key (no failure aborted the loop), reports failed_count,
\* and is marked failed exactly when failed_count > 0.
C1_MergeFailedIffFailedCount ==
    (Done /\ MergeRun /\ MergedSize > 0) =>
        /\ Len(replies) = MergedSize
        /\ outputs.failed_count = <<Digits(failed)>>
        /\ MarkedFailed <=> failed > 0

C1_Witness ==
    /\ Done /\ MergeRun /\ MergedSize = 3
    /\ failed = 1 /\ okCount = 2 /\ MarkedFailed
    /\ ~replies[2].ok

\* C2: in a set or delete run where some per-variable call failed, the run
\* ends without being marked failed (the failure shows in failed_count only).
C2_PerKeyFailureNeverFailsRun ==
    (Done /\ (MergeRun \/ DeleteRun) /\ failed > 0) => ~MarkedFailed

\* C3: a merge-mode set run calls update once per key of the merged map, in
\* the map's key order with the merged value, never with two calls in
\* flight; at the end updated_count is the number of calls that returned,
\* failed_count the number that threw, and they add up to the map's size.
C3_OneUpdatePerKey ==
    (MergeRun /\ MergedSize > 0) =>
        /\ Len(calls) <= MergedSize
        /\ \A i \in 1..Len(calls) :
              calls[i] = Call("update", mergedVars.keys[i],
                              Get(mergedVars, mergedVars.keys[i]), <<>>)
        /\ Len(calls) - Len(replies) \in {0, 1}
        /\ Done =>
              /\ Len(calls) = MergedSize
              /\ Len(replies) = MergedSize
              /\ outputs.updated_count = <<Digits(NumReturned)>>
              /\ outputs.failed_count = <<Digits(NumThrown)>>
              /\ NumReturned + NumThrown = MergedSize

C3_Witness ==
    /\ Done /\ MergeRun /\ MergedSize = 4
    /\ ~replies[1].ok /\ replies[2].ok /\ ~replies[3].ok /\ replies[4].ok

\* C4: a delete run calls delete once per entry of the key list, in list
\* order, duplicates included; a returned call or a 404 counts as deleted,
\* any other error as failed, and the loop goes on; at the end
\* deleted_count + failed_count is the length of the key list.
C4_OneDeletePerEntry ==
    DeleteRun =>
        /\ Len(calls) <= Len(KeyList)
        /\ \A i \in 1..Len(calls) : calls[i] = Call("delete", KeyList[i], <<>>, <<>>)
        /\ okCount = NumReturned + NumNotFound
        /\ failed = NumThrown - NumNotFound
        /\ (Done /\ KeyList # <<>>) =>
              /\ Len(replies) = Len(KeyList)
              /\ outputs.deleted_count = <<Digits(okCount)>>
              /\ outputs.failed_count = <<Digits(failed)>>
              /\ okCount + failed = Len(KeyList)

C4_Witness ==
    /\ Done /\ DeleteRun
    /\ KeyList = <<kA, kB, kA>>
    /\ replies[1].statusCode = 404 /\ replies[2].statusCode = 500 /\ replies[3].ok
    /\ outputs.deleted_count = <<Digits(2)>>

\* C5: a delete run with a non-empty key list is never marked failed,
\* whatever the per-key outcomes; the failures show in failed_count only.
C5_DeleteNeverMarkedFailed ==
    (DeleteRun /\ KeyList # <<>>) =>
        /\ ~MarkedFailed
        /\ Done => outputs.failed_count = <<Digits(NumThrown - NumNotFound)>>

C5_Witness ==
    /\ Done /\ DeleteRun /\ Len(KeyList) = 3
    /\ failed = 1 /\ okCount = 2 /\ ~MarkedFailed
    /\ outputs.failed_count = <<Digits(1)>>

\* C6: a replace-mode set run with a non-empty merged map makes one bulkSet
\* call and no other call; on success it reports updated_count = size,
\* failed_count = 0 and is not marked failed; on failure it reports
\* updated_count = 0, failed_count = size and is marked failed.
C6_ReplaceOneBulkCall ==
    (ReplaceRun /\ MergedSize > 0) =>
        /\ Len(calls) = 1
        /\ calls[1].api = "bulkSet"
        /\ Done =>
              IF replies[1].ok
              THEN /\ outputs.updated_count = <<Digits(MergedSize)>>
                   /\ outputs.failed_count = <<Digits(0)>>
                   /\ ~MarkedFailed
              ELSE /\ outputs.updated_count = <<Digits(0)>>
                   /\ outputs.failed_count = <<Digits(MergedSize)>>
                   /\ MarkedFailed

C6_Witness ==
    /\ Done /\ ReplaceRun /\ MergedSize = 3
    /\ ~replies[1].ok
    /\ outputs.failed_count = <<Digits(3)>>

\* C7: after a successful replace-mode set run the remote map is exactly
\* the merged map: same keys, same values, nothing else.
C7_ReplaceRemoteEqualsMerged ==
    (Done /\ ReplaceRun /\ MergedSize > 0 /\ replies = <<Returned>>) =>
        AsMap(remote) = AsMap(mergedVars)

C7_Witness ==
    /\ Done /\ ReplaceRun /\ MergedSize = 2 /\ replies = <<Returned>>
    /\ Has(remoteAtStart, <<"Z">>) /\ ~Has(remote, <<"Z">>)
    /\ Has(remote, kA) /\ Get(remoteAtStart, kA) # Get(remote, kA)

\* C8: in a merge-mode set run every remote variable whose key is not in
\* the merged map is as it was before the run, and every key whose update
\* returned holds its merged value.
C8_MergeFrame ==
    (MergeRun /\ MergedSize > 0) =>
        /\ \A k \in (Range(remoteAtStart.keys) \cup Range(remote.keys))
                        \ Range(mergedVars.keys) :
              /\ Has(remoteAtStart, k)
              /\ Has(remote, k)
              /\ Get(remote, k) = Get(remoteAtStart, k)
        /\ \A i \in 1..Len(replies) :
              replies[i].ok =>
                 /\ Has(remote, mergedVars.keys[i])
                 /\ Get(remote, mergedVars.keys[i]) = Get(mergedVars, mergedVars.keys[i])

C8_Witness ==
    /\ Done /\ MergeRun /\ MergedSize = 2
    /\ remoteAtStart = RemoteAZ
    /\ replies[1].ok /\ ~replies[2].ok
    /\ Get(remote, kA) = <<"1">> /\ Get(remote, <<"Z">>) = <<"7">>
    /\ ~Has(remote, kB)

\* C9: a clear run makes exactly one remote call, bulkSet with no entries;
\* on success it reports deleted_count = "all" and failed_count = 0 and is
\* not marked failed; on error it is marked failed and reports neither.
C9_ClearOneEmptyBulkSet ==
    (Done /\ ClearRun) =>
        /\ calls = <<Call("bulkSet", <<>>, <<>>, <<>>)>>
        /\ IF replies[1].ok
           THEN /\ outputs.deleted_count = <<All>>
                /\ outputs.failed_count = <<Digits(0)>>
                /\ ~MarkedFailed
           ELSE /\ MarkedFailed
                /\ outputs.deleted_count = <<>>
                /\ outputs.failed_count = <<>>

C9_Witness ==
    /\ Done /\ ClearRun /\ replies = <<Returned>>
    /\ Len(remoteAtStart.keys) = 2
    /\ outputs.deleted_count = <<All>>

\* C10 as written: a clear run issues a list call and then one delete call
\* per listed variable.
C10_ClearListsThenDeletes ==
    (Done /\ ClearRun /\ ~MarkedFailed) =>
        /\ Len(calls) = 1 + Len(remoteAtStart.keys)
        /\ calls[1].api = "list"
        /\ \A i \in 1..Len(remoteAtStart.keys) :
              calls[i + 1] = Call("delete", remoteAtStart.keys[i], <<>>, <<>>)

\* C10 amended: a clear run issues no list call and no delete call; every
\* call it makes is a bulkSet with no entries, and when that call has
\* returned no variable is left on the remote.
C10_ClearNeverListsOrDeletes ==
    ClearRun =>
        /\ \A i \in 1..Len(calls) :
              calls[i].api = "bulkSet" /\ calls[i].environment = <<>>
        /\ (Len(replies) > 0 /\ replies[Len(replies)].ok) => remote = EmptyObj

C10_Witness ==
    /\ Done /\ ClearRun /\ ~MarkedFailed
    /\ remoteAtStart = RemoteAZ
    /\ remote = EmptyObj
    /\ Len(calls) = 1

SetRun == MissingRequired = "" /\ Operation = OpSet
ListRun == MissingRequired = "" /\ Operation = OpList
UnknownRun == MissingRequired = "" /\ Operation \notin {OpList, OpClear, OpDelete, OpSet}

\* json_vars texts that are not JSON
MalformedJson == {JsonBad, JsonUnquoted}

\* The runs C11 lists: no source for set, no key for delete, an unknown
\* operation, malformed JSON, an env file that cannot be read
UsageOrParseError ==
    \/ SetRun /\ inputs.env_file = <<>> /\ inputs.json_vars = <<>> /\ inputs.variables = <<>>
    \/ DeleteRun /\ KeyList = <<>>
    \/ UnknownRun
    \/ SetRun /\ inputs.json_vars \in MalformedJson
    \/ SetRun /\ inputs.env_file # <<>> /\ ~fileSystem.readable

\* C11: a run that ends in a usage error or a parse error issues no remote
\* call at any point and ends marked failed.
C11_NoRemoteCallOnUsageOrParseError ==
    UsageOrParseError =>
        /\ calls = <<>>
        /\ Done => (MarkedFailed /\ Len(failure) = 1)

C11_Witness ==
    /\ Done /\ SetRun /\ MarkedFailed /\ calls = <<>>
    /\ inputs.json_vars = JsonBad
    /\ inputs.env_file # <<>> /\ fileSystem.content = FileAB
    /\ inputs.variables = InlineCD

\* C13: a list run (the default operation included) issues exactly one list
\* call and nothing else, leaves the remote map as it was, and on success
\* writes the returned map and its number of keys; a remote error marks
\* the run failed.
C13_ListReadsOnly ==
    ListRun =>
        /\ remote = remoteAtStart
        /\ Len(calls) <= 1
        /\ \A i \in 1..Len(calls) : calls[i] = Call("list", <<>>, <<>>, <<>>)
        /\ Done =>
              /\ Len(calls) = 1
              /\ IF replies[1].ok
                 THEN /\ outputs.count = <<Digits(Len(remote.keys))>>
                      /\ outputs.variables = <<remote>>
                      /\ ~MarkedFailed
                 ELSE /\ MarkedFailed
                      /\ outputs.count = <<>>

C13_Witness ==
    /\ Done /\ ListRun /\ inputs.operation = <<>>
    /\ remoteAtStart = RemoteAZ
    /\ replies = <<Returned>>
    /\ outputs.count = <<Digits(2)>>

\* The fragments of the two dialects: the lines of the file, and the pieces of
\* the inline text between newlines and commas
EnvLines == Split(fileSystem.content, {"\n"})
InlineFragments == Split(inputs.variables, {"\n", ","})

HasEq(f) == "=" \in Range(f)

\* Position of the first "=" of a fragment that has one
FirstEq(f) == CHOOSE i \in 1..Len(f) : f[i] = "=" /\ \A j \in 1..(i-1) : f[j] # "="

KeyOfFragment(f) == Trim(SubSeq(f, 1, FirstEq(f) - 1))
ValueOfFragment(f) == Trim(SubSeq(f, FirstEq(f) + 1, Len(f)))

\* The fragments that assign: not blank, with an "=" and some text before it
Assigning(frags) ==
    {n \in 1..Len(frags) : Trim(frags[n]) # <<>> /\ HasEq(frags[n]) /\ frags[n][1] # "="}

\* What each source holds on its own: the file and the JSON text as parsed,
\* the inline text as its fragments read (key before the first "=", value
\* after it, a later fragment over an earlier one)
FileSource == IF inputs.env_file # <<>> THEN parseEnvFile(fileSystem.content) ELSE EmptyObj
JsonSource == IF inputs.json_vars # <<>> THEN JSONparse(inputs.json_vars).value ELSE EmptyObj
InlineSource ==
    LET frags == InlineFragments
        F[n \in 0..Len(frags)] ==
            IF n = 0 THEN EmptyObj
            ELSE IF n \in Assigning(frags)
            THEN DefineProperty(F[n - 1], KeyOfFragment(frags[n]), ValueOfFragment(frags[n]))
            ELSE F[n - 1]
    IN  F[Len(frags)]

\* C12: the map parseVariables returns has the union of the sources' keys,
\* each key with the value of the highest-priority source that defines it
\* (inline over JSON over file); with no source it is the empty map.
C12_MergeBySourcePriority ==
    (pc = "returned_parseVariables") =>
        /\ Range(mergedVars.keys) =
              Range(FileSource.keys) \cup Range(JsonSource.keys) \cup Range(InlineSource.keys)
        /\ \A k \in Range(mergedVars.keys) :
              Get(mergedVars, k) =
                 IF Has(InlineSource, k) THEN Get(InlineSource, k)
                 ELSE IF Has(JsonSource, k) THEN Get(JsonSource, k)
                 ELSE Get(FileSource, k)
        /\ (inputs.env_file = <<>> /\ inputs.json_vars = <<>> /\ inputs.variables = <<>>)
              => mergedVars = EmptyObj

\* Texts a log line may quote without showing a value: variable names,
\* counts, the operation, the environment name, the env file path and the
\* remote service's own error texts
LoggableTexts ==
    Range(mergedVars.keys) \cup Range(keys) \cup Range(remote.keys)
    \cup Range(remoteAtStart.keys)
    \cup {Digits(n) : n \in 0..9}
    \cup {Digits(n) : n \in 0..Len(inputs.json_vars)}
    \cup {Operation, GetInput("environment_name"), GetInput("env_file")}
    \cup {e.body : e \in RemoteErrors}
    \cup UNION {Range(e.message.args) : e \in RemoteErrors}

\* C14: no line of the log stream (info, warning, error, failure message)
\* quotes anything but variable names and the other texts above; in
\* particular no variable value and no source text that holds values.
C14_ValuesNeverLogged ==
    \A i \in 1..Len(log) : Range(log[i].text.args) \subseteq LoggableTexts

\* json_vars texts that are JSON but whose top level is not an object
NonObjectJson == {JsonArray, JsonNumber, JsonNull, JsonString}

\* C15: a set run whose json_vars is not JSON, or is JSON that is not an
\* object, ends marked failed without a remote call; and every value of the
\* merged map is a string.
C15_JsonMustBeStringObject ==
    /\ (SetRun /\ inputs.json_vars \in MalformedJson \cup NonObjectJson
               /\ (inputs.env_file = <<>> \/ fileSystem.readable)) =>
          /\ calls = <<>>
          /\ Done => MarkedFailed
    /\ SetRun => \A i \in 1..Len(mergedVars.val) : IsStringValue(mergedVars.val[i])

\* C16: once the run is marked failed it has ended: no remote call is
\* issued afterwards and it is not marked failed again; and every run ends,
\* given that every remote call settles.
C16_FatalErrorAborts ==
    /\ [](MarkedFailed => (Done /\ Len(failure) = 1))
    /\ [][MarkedFailed => (calls' = calls /\ failure' = failure)]_vars
    /\ <>Done

C16_Witness ==
    /\ Done /\ ReplaceRun /\ MarkedFailed
    /\ Len(calls) = 1 /\ replies = <<Thrown(ServerError)>>
    /\ MergedSize = 4

\* C17: every name a set run sends to the remote, in an update call or in a
\* bulkSet entry, is a non-empty text, and so is every key of the merged map.
C17_NamesNonEmpty ==
    SetRun =>
        /\ \A i \in 1..Len(mergedVars.keys) : mergedVars.keys[i] # <<>>
        /\ \A i \in 1..Len(calls) :
              /\ calls[i].api = "update" => calls[i].key # <<>>
              /\ \A j \in 1..Len(calls[i].environment) :
                    calls[i].environment[j].name # <<>>

ParsedFile == pc = "returned_parseEnvFile"
ParsedInline ==
    pc = "returned_parseVariables" /\ inputs.env_file = <<>> /\ inputs.json_vars = <<>>

\* The text before the first "=" of a fragment that has one, trimmed
NameOf(f) ==
    LET t == Trim(f)
        eq == CHOOSE i \in 1..Len(t) : t[i] = "=" /\ \A j \in 1..(i-1) : t[j] # "="
    IN  Trim(SubSeq(t, 1, eq - 1))

\* A fragment 'K=': a name, then the fragment's only "=", then nothing
IsEmptyAssignment(f) ==
    LET t == Trim(f)
    IN  /\ Len(t) >= 2
        /\ t[Len(t)] = "="
        /\ \A j \in 1..(Len(t) - 1) : t[j] # "="

\* Every fragment 'K=' gives key K, with the empty text as value unless a
\* later fragment assigns K again
EmptyValueKept(frags, isComment(_)) ==
    \A n \in 1..Len(frags) :
        (IsEmptyAssignment(frags[n]) /\ ~isComment(frags[n])) =>
            /\ Has(mergedVars, NameOf(frags[n]))
            /\ (\A m \in (n+1)..Len(frags) :
                    ~(HasEq(frags[m]) /\ NameOf(frags[m]) = NameOf(frags[n])))
               => Get(mergedVars, NameOf(frags[n])) = <<>>

\* Every key of the result is the name of a fragment that has an "="
OnlyAssignedKeys(frags) ==
    \A k \in Range(mergedVars.keys) :
        \E n \in 1..Len(frags) : HasEq(frags[n]) /\ NameOf(frags[n]) = k

\* C18: every key of the merged map has a value, and in both dialects a
\* fragment 'K=' yields key K with the empty text as value while a fragment
\* without "=" yields no entry.
C18_EmptyValueKeptBareKeyDropped ==
    /\ pc \in {"returned_parseEnvFile", "returned_parseVariables"} =>
           Len(mergedVars.val) = Len(mergedVars.keys)
    /\ ParsedFile =>
           /\ EmptyValueKept(EnvLines, LAMBDA f : StartsWith(Trim(f), "#"))
           /\ OnlyAssignedKeys(EnvLines)
    /\ ParsedInline =>
           /\ EmptyValueKept(InlineFragments, LAMBDA f : FALSE)
           /\ OnlyAssignedKeys(InlineFragments)

\* The map written back as text: one KEY=VALUE line per entry, in key order
Serialize(o) == Join([i \in 1..Len(o.keys) |-> o.keys[i] \o <<"=">> \o o.val[i]], "\n")

\* A value parseEnvFile reads back as it is: nothing to trim at either end,
\* and not wrapped in a pair of quotes
PlainValue(v) ==
    /\ Trim(v) = v
    /\ ~(StartsWith(v, "\"") /\ EndsWith(v, "\""))
    /\ ~(StartsWith(v, "'") /\ EndsWith(v, "'"))

\* C19 as stated: for every dotenv text, parsing the serialized result of
\* the first parse yields the same map as the first parse.
C19_RoundTrip ==
    ParsedFile => parseEnvFile(Serialize(mergedVars)) = mergedVars

\* C19 amended: the round trip yields the same map whenever every value of
\* the first parse is plain (neither padded with white space nor wrapped in
\* a pair of quotes).
C19_RoundTripOfPlainValues ==
    (ParsedFile /\ \A i \in 1..MergedSize : PlainValue(mergedVars.val[i]))
        => parseEnvFile(Serialize(mergedVars)) = mergedVars

C19_Witness ==
    /\ ParsedFile
    /\ fileSystem.content = <<"A", "=", "\"", "A", "\"">>
    /\ mergedVars = [keys |-> <<kA>>, val |-> <<<<"A">>>>]
    /\ Serialize(mergedVars) = <<"A", "=", "A">>
    /\ parseEnvFile(Serialize(mergedVars)) = mergedVars

\* C20: the inline text is cut at newlines and commas, blank fragments are
\* skipped, and a fragment is cut at its first "=" only: the key is the
\* trimmed text before it, the value the trimmed text after it (further "="
\* included), and the last fragment of a key gives the key's value.
C20_InlineSplitAtFirstEq ==
    ParsedInline =>
        LET frags == InlineFragments
            assign == Assigning(frags)
        IN  /\ Range(mergedVars.keys) = {KeyOfFragment(frags[n]) : n \in assign}
            /\ Cardinality(Range(mergedVars.keys)) = MergedSize
            /\ \A n \in assign :
                   (\A m \in assign : m > n => KeyOfFragment(frags[m]) # KeyOfFragment(frags[n]))
                   => Get(mergedVars, KeyOfFragment(frags[n])) = ValueOfFragment(frags[n])
            /\ inputs.variables = InlineTwice =>
                   mergedVars = [keys |-> <<kA>>, val |-> <<<<"2">>>>]

\* A set run given at least one source, whose sources parse and merge to a
\* map without keys
EmptyMergedRun ==
    /\ SetRun
    /\ \E src \in {"env_file", "json_vars", "variables"} : GetInput(src) # <<>>
    /\ \E p \in {parseVariables(GetInput("env_file"), GetInput("json_vars"),
                                GetInput("variables"))} :
           p.ok /\ p.result.keys = <<>>

\* C21: a set run whose merged map has no keys makes no remote call, writes
\* no output and ends with a warning, not marked failed; a bulkSet with no
\* entries is issued by clear runs only, and a set run whose call returned
\* leaves variables on the remote.
C21_SetNeverSendsEmptyState ==
    /\ EmptyMergedRun =>
           /\ calls = <<>>
           /\ \A n \in OutputNames : outputs[n] = <<>>
           /\ ~MarkedFailed
           /\ remote = remoteAtStart
           /\ pc \in {"start", "done"}
           /\ Done => log[Len(log)] = LogEntry("warning", "No variables to set", <<>>)
    /\ \A i \in 1..Len(calls) :
           (calls[i].api = "bulkSet" /\ calls[i].environment = <<>>) => ClearRun
    /\ (SetRun /\ \E i \in 1..Len(replies) : replies[i].ok) => remote # EmptyObj

C21_Witness ==
    /\ Done /\ EmptyMergedRun /\ Replace
    /\ inputs.env_file = EnvPath /\ fileSystem.content = FileComment
    /\ inputs.json_vars = <<>> /\ inputs.variables = <<>>
    /\ calls = <<>>
    /\ remote = RemoteAZ
    /\ ~MarkedFailed
====
